---- MODULE Spec2Model ----
(***************************************************************************)
(* ai-pr-review-action: the resilient request executor (fetchJson and its  *)
(* helpers, http.js / index.js), the generation client (callLLM), and the  *)
(* orchestrator main of index.js: file selection, the inline and summary   *)
(* review modes, and the sticky summary comment.                           *)
(***************************************************************************)
EXTENDS Integers, Sequences, FiniteSets, TLC

VARIABLES
    pc,         \* where the fetchJson call stands: idle, fetching, sleeping, returned, thrown
    caller,     \* who invoked fetchJson: "none", "direct" or "callLLM"
    config,     \* the third argument of fetchJson, as the caller built it
    attempt,    \* the loop counter of fetchJson
    timers,     \* attempts whose deadline timer (setTimeout) is pending
    curErr,     \* the error held in `err` while fetchJson awaits sleep(delay)
    lastError,  \* the variable lastError of fetchJson
    result,     \* how the call ended: returned value or thrown value
    log,        \* what the call did, in order: requests, outcomes, observer calls, sleeps
    llmResult,  \* what callLLM returned to its caller
    mainPc,     \* where main stands: init, listing, reviewing, skipped
    prFiles,    \* the changed files of the pull request, as the platform holds them
    page,       \* the page number main asks listFiles for
    allFiles,   \* the array allFiles of main
    maxFiles,   \* the constant maxFiles of main
    reviewableFiles, \* the array reviewableFiles of main
    inputs,     \* the environment and action inputs the run was started with
    settings,   \* the constants main derives from its inputs
    fileIdx,    \* index in reviewableFiles of the file the inline loop is at
    chunks,     \* the array chunks of reviewFile
    chunkIdx,   \* the index i of reviewFile's loop (1-based)
    responses,  \* the array responses of reviewFile
    answers,    \* what callLLM returned for each chunk of the current file, in order
    sent,       \* the diff content given to callLLM, one entry per call of the run
    content,    \* the constant content of main's summary mode
    posts,      \* the createReview requests postInlineReview issued, in order
    reviews,    \* the reviews the platform accepted (pulls.createReview)
    runLog,     \* core.info and core.warning calls of the orchestrator, in order
    failed,     \* the messages given to core.setFailed, in order
    successCount, \* the variable successCount of the inline loop
    skipCount,  \* the variable skipCount of the inline loop
    comments,   \* the issue comments of the pull request, as the platform holds them
    jobs,       \* per job: where its createOrUpdateComment call stands
    writes,     \* the comment writes the platform accepted, in order
    test        \* the call of a utility function a unit test made, and what it returned

fetchVars == <<pc, caller, config, attempt, timers, curErr, lastError, result, log, llmResult>>
selectVars == <<prFiles, page, allFiles, maxFiles, reviewableFiles>>
reviewVars == <<fileIdx, chunks, chunkIdx, responses, answers, sent, content, posts, reviews,
                successCount, skipCount>>
commentVars == <<comments, jobs, writes>>
runVars == <<mainPc, prFiles, page, allFiles, maxFiles, reviewableFiles, inputs, settings,
             fileIdx, chunks, chunkIdx, responses, answers, sent, content, posts, reviews,
             runLog, failed, successCount, skipCount, test>>
mainVars == <<mainPc, prFiles, page, allFiles, maxFiles, reviewableFiles,
              inputs, settings, fileIdx, chunks, chunkIdx, responses, answers, sent, content,
              posts, reviews, runLog, failed, successCount, skipCount, comments, jobs, writes,
              test>>
vars == <<pc, caller, config, attempt, timers, curErr, lastError, result, log, llmResult,
          mainPc, prFiles, page, allFiles, maxFiles, reviewableFiles,
          inputs, settings, fileIdx, chunks, chunkIdx, responses, answers, sent, content,
          posts, reviews, runLog, failed, successCount, skipCount, comments, jobs, writes,
          test>>

----------------------------------------------------------------------------
(* Program constants *)

MAX_RETRIES == 3
RETRY_DELAY_MS == 1000
PER_PAGE == 100
MAX_FILES_DEFAULT == 25
MAX_FILES_MIN == 1
MAX_FILES_MAX == 200
DEFAULT_TIMEOUT_MS == 60000
DEFAULT_CHUNK_SIZE == 12000
DEFAULT_MAX_DIFF_PER_FILE == 50000
MAX_CHARS_DEFAULT == 120000
MAX_CHARS_MIN == 10000
MAX_CHARS_MAX == 500000
TIMEOUT_MIN == 5000
TIMEOUT_MAX == 600000
CHUNK_SIZE_MIN == 1000
CHUNK_SIZE_MAX == 50000
MAX_DIFF_MIN == 1000
MAX_DIFF_MAX == 200000
COMMENTS_PER_PAGE == 100
DEFAULT_COMMENT_MARKER == "AI_PR_REVIEW_ACTION"
TRUNCATION_MARKER == "\n...[truncated]\n"

(* Bounds of the model *)

MaxRetriesBound == 4    \* largest maxRetries a direct caller passes
MaxListLen == 3         \* longest enumerated list of changed files
MaxRawLen == 3          \* longest enumerated raw value of a numeric input
MaxTextLen == 5         \* longest enumerated text a utility function is called with

----------------------------------------------------------------------------
(* JavaScript values *)

Undefined == [t |-> "undefined"]
JNull == [t |-> "null"]
JStr(s) == [t |-> "string", v |-> s]
JNum(n) == [t |-> "number", v |-> n]
JObj(f) == [t |-> "object", v |-> f]
JArr(s) == [t |-> "array", v |-> s]

\* json?.k : optional chaining on a decoded value
Get(j, k) == IF j.t = "object" /\ k \in DOMAIN j.v THEN j.v[k] ELSE Undefined

\* json?.[i] on an array (0-based in the source, 1-based sequence here)
At(j, i) == IF j.t = "array" /\ (i + 1) \in DOMAIN j.v THEN j.v[i + 1] ELSE Undefined

Truthy(j) ==
    CASE j.t = "undefined" -> FALSE
      [] j.t = "null" -> FALSE
      [] j.t = "string" -> j.v # ""
      [] j.t = "number" -> j.v # 0
      [] OTHER -> TRUE

\* a || b
Or(a, b) == IF Truthy(a) THEN a ELSE b

\* String(v), as new Error(v) converts its message
ToStr(j) ==
    CASE j.t = "string" -> j.v
      [] j.t = "number" -> ToString(j.v)
      [] j.t = "object" -> "[object Object]"
      [] j.t = "null" -> "null"
      [] j.t = "undefined" -> ""
      [] OTHER -> "[array]"

----------------------------------------------------------------------------
(* Response bodies and JSON.parse *)

TextContent == "{\"choices\":[{\"message\":{\"content\":\"Possible bug\"}}]}"
TextLegacy == "{\"choices\":[{\"text\":\"Legacy text\"}]}"
TextBoth ==
    "{\"choices\":[{\"message\":{\"content\":\"Possible bug\"},\"text\":\"Legacy text\"}]}"
TextNullContent ==
    "{\"choices\":[{\"message\":{\"content\":null},\"text\":\"Legacy text\"}]}"
TextErrMsg == "{\"error\":{\"message\":\"Rate limit exceeded\"}}"
TextErrStr == "{\"error\":\"Simple error string\"}"
TextErrObj == "{\"error\":{\"code\":7}}"
TextEmptyObj == "{}"
TextNull == "null"
TextNotJson == "not json"
TextEmpty == ""

Texts == {TextContent, TextLegacy, TextBoth, TextNullContent, TextErrMsg, TextErrStr, TextErrObj,
          TextEmptyObj, TextNull, TextNotJson, TextEmpty}

EmptyObj == JObj(<<>>)

\* texts a model answers a review request with
ReviewKept == "Line 3: possible null dereference."
ReviewLgtm == "LGTM"
ReviewPhraseShort == "Looks good to me, nothing to change here."
ReviewPhraseLong ==
    "Overall the change looks good, but the loop in parse() never terminates when the input is empty; add a guard."
ReviewCritical == "Critical: SQL built from user input in query()."
ReviewEmpty == ""
ReviewTexts == {ReviewKept, ReviewLgtm, ReviewPhraseShort, ReviewPhraseLong, ReviewCritical,
                ReviewEmpty}

\* the body of a chat completion whose message content is c
TextReview(c) == "{\"choices\":[{\"message\":{\"content\":\"" \o c \o "\"}}]}"

JsonParse(text) ==
    CASE text = TextContent ->
            JObj("choices" :> JArr(<<JObj("message" :> JObj("content" :> JStr("Possible bug")))>>))
      [] text = TextLegacy ->
            JObj("choices" :> JArr(<<JObj("text" :> JStr("Legacy text"))>>))
      [] text = TextBoth ->
            JObj("choices" :> JArr(<<JObj("message" :> JObj("content" :> JStr("Possible bug"))
                                          @@ "text" :> JStr("Legacy text"))>>))
      [] text = TextNullContent ->
            JObj("choices" :> JArr(<<JObj("message" :> JObj("content" :> JNull)
                                          @@ "text" :> JStr("Legacy text"))>>))
      [] text = TextErrMsg ->
            JObj("error" :> JObj("message" :> JStr("Rate limit exceeded")))
      [] text = TextErrStr -> JObj("error" :> JStr("Simple error string"))
      [] text = TextErrObj -> JObj("error" :> JObj("code" :> JNum(7)))
      [] text = TextEmptyObj -> EmptyObj
      [] text = TextNull -> JNull
      [] \E c \in ReviewTexts : text = TextReview(c) ->
            JObj("choices" :> JArr(<<JObj("message" :>
                JObj("content" :> JStr(CHOOSE c \in ReviewTexts : text = TextReview(c))))>>))
      [] OTHER -> Undefined    \* JSON.parse throws SyntaxError

parseResponse(text) ==
    IF JsonParse(text) = Undefined THEN JNull ELSE JsonParse(text)

----------------------------------------------------------------------------
(* Helpers of the executor *)

\* Errors are records; id is the identity of the object: the attempt that created it.
createHttpError(json, text, status, id) ==
    LET msg == Or(Or(Or(Get(Get(json, "error"), "message"), Get(json, "error")),
                     JStr(text)), JStr("HTTP " \o ToString(status)))
    IN  [name |-> "Error", message |-> ToStr(msg), status |-> status, body |-> text, id |-> id]

\* mutation: every 4xx and 5xx status is retried
isRetryableErrorAny4xx(status) == status >= 400 /\ status < 600

isRetryableError(status) ==
    status = 408 \/ status = 429 \/ (status >= 500 /\ status < 600)

RECURSIVE Pow(_, _)
Pow(b, e) == IF e <= 0 THEN 1 ELSE b * Pow(b, e - 1)

\* mutation: the exponent is the attempt, not the attempt minus one
calculateBackoffOffByOne(k, baseDelay) == baseDelay * Pow(2, k)

\* mutation: the base delay is read from the configuration object of the call
calculateBackoffFromConfig(k, baseDelay) ==
    (IF "baseDelay" \in DOMAIN config THEN config.baseDelay ELSE baseDelay) * Pow(2, k - 1)

calculateBackoff(k, baseDelay) == baseDelay * Pow(2, k - 1)

\* mutation: only 200 counts as success
OkOnly200(status) == status = 200

\* res.ok
Ok(status) == status >= 200 /\ status <= 299

TimeoutError(timeoutMs, id) ==
    [name |-> "Error", message |-> "Request timed out after " \o ToString(timeoutMs) \o "ms",
     status |-> 408, id |-> id]

\* what fetch (or res.text) rejects with when the connection fails: no status property
NetworkError(id) == [name |-> "TypeError", message |-> "fetch failed", id |-> id]

HasStatus(err) == "status" \in DOMAIN err /\ err.status # 0

----------------------------------------------------------------------------
(* The call's configuration *)

\* mutation: the attempt count is the module constant, whatever the call asks
MaxRetriesOfConstant(cfg) == MAX_RETRIES

\* { timeoutMs, maxRetries = MAX_RETRIES, onRetry } = {}
MaxRetriesOf(cfg) == IF "maxRetries" \in DOMAIN cfg THEN cfg.maxRetries ELSE MAX_RETRIES
HasObserver(cfg) == "onRetry" \in DOMAIN cfg
TimeoutOf(cfg) == cfg.timeoutMs

Ev(e, k, status, delay) == [e |-> e, attempt |-> k, status |-> status, delay |-> delay]

\* the response observed on attempt k
RespEv(k, status, text) ==
    [e |-> "resp", attempt |-> k, status |-> status, delay |-> 0, text |-> text]

\* mutation: the observer is told the number of the attempt to come
NotifyNextAttempt(cfg, status, k, delay) ==
    IF HasObserver(cfg) THEN <<Ev("notify", k + 1, status, delay)>> ELSE <<>>

\* if (onRetry) onRetry({ status, attempt, delay })
Notify(cfg, status, k, delay) ==
    IF HasObserver(cfg) THEN <<Ev("notify", k, status, delay)>> ELSE <<>>

----------------------------------------------------------------------------
(* Inputs of the model *)

\* statuses a response can carry: success, redirect, terminal 4xx, retryable
Statuses == {200, 204, 301, 400, 404, 408, 429, 503}

\* bodies a response carries in the executor's runs
RespTexts == {TextContent, TextNotJson}

Timeouts == {5000}

\* a base delay a caller may put in the configuration object
AskedBaseDelays == {500}

Opt(present, rec) == IF present THEN rec ELSE <<>>

Configs ==
    { [timeoutMs |-> t] @@ Opt(m >= 0, [maxRetries |-> m]) @@ Opt(o, [onRetry |-> TRUE])
        @@ Opt(b > 0, [baseDelay |-> b]) :
      t \in Timeouts, m \in (-1) .. MaxRetriesBound, o \in BOOLEAN, b \in {0} \cup AskedBaseDelays }

----------------------------------------------------------------------------
(* fetchJson *)

\* throw err, out of fetchJson
Throw(err, lg, ts) ==
    /\ pc' = "thrown"
    /\ result' = [kind |-> "throw", value |-> err]
    /\ log' = Append(lg, Ev("throw", attempt, IF HasStatus(err) THEN err.status ELSE 0, 0))
    /\ timers' = ts
    /\ curErr' = Undefined
    /\ UNCHANGED <<attempt, lastError, llmResult>>

\* json?.choices?.[0]?.message?.content ?? json?.choices?.[0]?.text ?? ""
Nullish(j) == j.t \in {"undefined", "null"}
Coalesce(a, b) == IF Nullish(a) THEN b ELSE a
\* mutation: no fallback to the empty string
ExtractContentNoDefault(json) ==
    LET first == At(Get(json, "choices"), 0)
    IN  Coalesce(Get(Get(first, "message"), "content"), Get(first, "text"))

ExtractContent(json) ==
    LET first == At(Get(json, "choices"), 0)
    IN  Coalesce(Coalesce(Get(Get(first, "message"), "content"), Get(first, "text")), JStr(""))

\* return json, out of fetchJson; callLLM then returns the content
Return(json, lg, ts) ==
    /\ pc' = "returned"
    /\ result' = [kind |-> "return", value |-> json]
    /\ log' = Append(lg, Ev("return", attempt, 0, 0))
    /\ timers' = ts
    /\ curErr' = Undefined
    /\ llmResult' = IF caller = "callLLM" THEN ExtractContent(json) ELSE llmResult
    /\ UNCHANGED <<attempt, lastError>>

\* the head of the for loop with attempt = k: either the next request is issued
\* (new controller, new deadline timer, fetch) or the loop ends and lastError is thrown
LoopHead(cfg, k, lg, le, ts) ==
    /\ attempt' = k
    /\ lastError' = le
    /\ curErr' = Undefined
    /\ UNCHANGED llmResult
    /\ IF k <= MaxRetriesOf(cfg)
       THEN /\ pc' = "fetching"
            /\ timers' = ts \cup {k}
            /\ log' = Append(lg, Ev("req", k, 0, 0))
            /\ UNCHANGED result
       ELSE /\ pc' = "thrown"
            /\ timers' = ts
            /\ result' = [kind |-> "throw", value |-> le]
            /\ log' = Append(lg, Ev("throw", k, 0, 0))

\* await sleep(delay), holding err
Sleep(err, delay, lg, ts) ==
    /\ pc' = "sleeping"
    /\ curErr' = err
    /\ log' = Append(lg, Ev("sleep", attempt, 0, delay))
    /\ timers' = ts
    /\ UNCHANGED <<attempt, lastError, result, llmResult>>

\* mutation: a timeout is retried after the backoff sleep, like the other failures
CatchBlockTimeoutBackoff(err, lg, ts0) ==
    LET ts == ts0 \ {attempt}
        maxRetries == MaxRetriesOf(config)
        delay == calculateBackoff(attempt, RETRY_DELAY_MS)
    IN  IF err.name = "AbortError"
        THEN LET timeoutErr == TimeoutError(TimeoutOf(config), attempt)
             IN  IF attempt >= maxRetries
                 THEN Throw(timeoutErr, lg, ts)
                 ELSE Sleep(timeoutErr, delay, lg \o Notify(config, 408, attempt, delay), ts)
        ELSE IF ~HasStatus(err) /\ attempt < maxRetries
        THEN Sleep(err, delay, lg \o Notify(config, 0, attempt, delay), ts)
        ELSE Throw(err, lg, ts)

\* mutation: a network error is retried on the last attempt too (<= for <)
CatchBlockNetworkLe(err, lg, ts0) ==
    LET ts == ts0 \ {attempt}
        maxRetries == MaxRetriesOf(config)
    IN  IF err.name = "AbortError"
        THEN LET timeoutErr == TimeoutError(TimeoutOf(config), attempt)
             IN  IF attempt >= maxRetries
                 THEN Throw(timeoutErr, lg, ts)
                 ELSE LoopHead(config, attempt + 1, lg \o Notify(config, 408, attempt, 0),
                               timeoutErr, ts)
        ELSE IF ~HasStatus(err) /\ attempt <= maxRetries
        THEN LET delay == calculateBackoff(attempt, RETRY_DELAY_MS)
             IN  Sleep(err, delay, lg \o Notify(config, 0, attempt, delay), ts)
        ELSE Throw(err, lg, ts)

\* mutation: when the attempts are used up the recorded lastError is thrown
CatchBlockThrowsRecorded(err, lg, ts0) ==
    LET ts == ts0 \ {attempt}
        maxRetries == MaxRetriesOf(config)
        final(e) == IF attempt >= maxRetries /\ lastError # Undefined THEN lastError ELSE e
    IN  IF err.name = "AbortError"
        THEN LET timeoutErr == TimeoutError(TimeoutOf(config), attempt)
             IN  IF attempt >= maxRetries
                 THEN Throw(final(timeoutErr), lg, ts)
                 ELSE LoopHead(config, attempt + 1, lg \o Notify(config, 408, attempt, 0),
                               timeoutErr, ts)
        ELSE IF ~HasStatus(err) /\ attempt < maxRetries
        THEN LET delay == calculateBackoff(attempt, RETRY_DELAY_MS)
             IN  Sleep(err, delay, lg \o Notify(config, 0, attempt, delay), ts)
        ELSE Throw(final(err), lg, ts)

\* mutation: the catch block does not cancel the deadline timer
CatchBlockKeepsTimer(err, lg, ts0) ==
    LET ts == ts0
        maxRetries == MaxRetriesOf(config)
    IN  IF err.name = "AbortError"
        THEN LET timeoutErr == TimeoutError(TimeoutOf(config), attempt)
             IN  IF attempt >= maxRetries
                 THEN Throw(timeoutErr, lg, ts)
                 ELSE LoopHead(config, attempt + 1, lg \o Notify(config, 408, attempt, 0),
                               timeoutErr, ts)
        ELSE IF ~HasStatus(err) /\ attempt < maxRetries
        THEN LET delay == calculateBackoff(attempt, RETRY_DELAY_MS)
             IN  Sleep(err, delay, lg \o Notify(config, 0, attempt, delay), ts)
        ELSE Throw(err, lg, ts)

\* mutation: a timeout on the last attempt continues the loop instead of throwing
CatchBlockTimeoutContinues(err, lg, ts0) ==
    LET ts == ts0 \ {attempt}
        maxRetries == MaxRetriesOf(config)
    IN  IF err.name = "AbortError"
        THEN LET timeoutErr == TimeoutError(TimeoutOf(config), attempt)
             IN  LoopHead(config, attempt + 1, lg \o Notify(config, 408, attempt, 0),
                          timeoutErr, ts)
        ELSE IF ~HasStatus(err) /\ attempt < maxRetries
        THEN LET delay == calculateBackoff(attempt, RETRY_DELAY_MS)
             IN  Sleep(err, delay, lg \o Notify(config, 0, attempt, delay), ts)
        ELSE Throw(err, lg, ts)

\* the catch block of the loop body
CatchBlock(err, lg, ts0) ==
    LET ts == ts0 \ {attempt}
        maxRetries == MaxRetriesOf(config)
    IN  IF err.name = "AbortError"
        THEN LET timeoutErr == TimeoutError(TimeoutOf(config), attempt)
             IN  IF attempt >= maxRetries
                 THEN Throw(timeoutErr, lg, ts)
                 ELSE LoopHead(config, attempt + 1, lg \o Notify(config, 408, attempt, 0),
                               timeoutErr, ts)
        ELSE IF ~HasStatus(err) /\ attempt < maxRetries
        THEN LET delay == calculateBackoff(attempt, RETRY_DELAY_MS)
             IN  Sleep(err, delay, lg \o Notify(config, 0, attempt, delay), ts)
        ELSE Throw(err, lg, ts)

\* a caller invokes fetchJson(url, options, cfg)
fetchJson(cfg) ==
    /\ pc = "idle"
    /\ caller' = "direct"
    /\ config' = cfg
    /\ LoopHead(cfg, 1, <<>>, Undefined, {})
    /\ UNCHANGED mainVars

\* callLLM up to its await: fetchJson(url, {...}, { timeoutMs }) issues the first request
StartCall(timeoutMs) ==
    /\ caller' = "callLLM"
    /\ config' = [timeoutMs |-> timeoutMs]
    /\ LoopHead([timeoutMs |-> timeoutMs], 1, <<>>, Undefined, {})

\* a caller invokes callLLM
callLLM(timeoutMs) ==
    /\ pc = "idle"
    /\ StartCall(timeoutMs)
    /\ UNCHANGED mainVars

\* fetch resolves with a response of this status and body
Respond(status, text) ==
    /\ pc = "fetching"
    /\ LET ts == timers \ {attempt}
           json == parseResponse(text)
           lg == Append(log, RespEv(attempt, status, text))
           err == createHttpError(json, text, status, attempt)
       IN  IF Ok(status) THEN Return(json, lg, ts)
           ELSE IF ~isRetryableError(status) THEN CatchBlock(err, lg, ts)
           ELSE IF attempt >= MaxRetriesOf(config) THEN CatchBlock(err, lg, ts)
           ELSE LET delay == calculateBackoff(attempt, RETRY_DELAY_MS)
                IN  Sleep(err, delay, lg \o Notify(config, status, attempt, delay), ts)
    /\ UNCHANGED <<caller, config>>
    /\ UNCHANGED mainVars

\* the deadline timer of the attempt fires: controller.abort() rejects fetch with AbortError
Abort ==
    /\ pc = "fetching"
    /\ attempt \in timers
    /\ CatchBlock([name |-> "AbortError", message |-> "This operation was aborted", id |-> attempt],
                  Append(log, Ev("abort", attempt, 0, 0)), timers \ {attempt})
    /\ UNCHANGED <<caller, config>>
    /\ UNCHANGED mainVars

\* fetch (or res.text) rejects with a connection-level error
NetworkFail ==
    /\ pc = "fetching"
    /\ CatchBlock(NetworkError(attempt), Append(log, Ev("neterr", attempt, 0, 0)), timers)
    /\ UNCHANGED <<caller, config>>
    /\ UNCHANGED mainVars

\* sleep(delay) resolves: lastError = err, then the next iteration
SleepDone ==
    /\ pc = "sleeping"
    /\ LoopHead(config, attempt + 1, log, curErr, timers)
    /\ UNCHANGED <<caller, config>>
    /\ UNCHANGED mainVars

----------------------------------------------------------------------------
(* Utility functions of index.js *)

Min(a, b) == IF a < b THEN a ELSE b
Max(a, b) == IF a > b THEN a ELSE b

Digits == <<"0", "1", "2", "3", "4", "5", "6", "7", "8", "9">>
IsDigit(c) == \E i \in 1 .. 10 : Digits[i] = c
DigitVal(c) == (CHOOSE i \in 1 .. 10 : Digits[i] = c) - 1
IsSpace(c) == c \in {" ", "\t", "\n"}

RECURSIVE SkipSpaces(_)
SkipSpaces(s) == IF s # <<>> /\ IsSpace(Head(s)) THEN SkipSpaces(Tail(s)) ELSE s

\* the value of the longest prefix of digits of s, continuing from acc
RECURSIVE DigitsPrefix(_, _)
DigitsPrefix(s, acc) ==
    IF s # <<>> /\ IsDigit(Head(s)) THEN DigitsPrefix(Tail(s), 10 * acc + DigitVal(Head(s)))
    ELSE acc

\* Number.parseInt(s, 10) on a string given as its characters: leading white space
\* is skipped, a sign is read, then digits as far as they go; NaN without a digit
parseInt(str) ==
    LET s == SkipSpaces(str)
        signed == s # <<>> /\ Head(s) \in {"+", "-"}
        body == IF signed THEN Tail(s) ELSE s
    IN  IF body = <<>> \/ ~IsDigit(Head(body)) THEN [nan |-> TRUE, n |-> 0]
        ELSE [nan |-> FALSE,
              n |-> IF signed /\ Head(s) = "-" THEN 0 - DigitsPrefix(body, 0)
                    ELSE DigitsPrefix(body, 0)]

\* clampInt with the upper limit left out
clampIntNoUpperLimit(val, def, min, max) ==
    LET n == parseInt(val)
    IN  IF n.nan THEN def ELSE Max(min, n.n)

\* clampInt(val, def, min, max); val is the input's characters (empty when not set)
clampInt(val, def, min, max) ==
    LET n == parseInt(val)
    IN  IF n.nan THEN def ELSE Max(min, Min(max, n.n))

----------------------------------------------------------------------------
(* Strings *)

CharAt(s, i) == SubSeq(s, i, i)

SetMin(S) == CHOOSE x \in S : \A y \in S : x <= y
SetMax(S) == CHOOSE x \in S : \A y \in S : x >= y

\* s.includes(p)
includes(s, p) ==
    \/ p = ""
    \/ \E i \in 1 .. (Len(s) - Len(p) + 1) : SubSeq(s, i, i + Len(p) - 1) = p

\* s.startsWith(p), the string s starting at index a of a longer one
StartsWithAt(s, a, p) == a + Len(p) - 1 <= Len(s) /\ SubSeq(s, a, a + Len(p) - 1) = p

\* s.trim()
trim(s) ==
    LET IsWhite(c) == IsSpace(c) \/ c \in {"\r", "\f"}
        nw == {i \in 1 .. Len(s) : ~IsWhite(CharAt(s, i))}
    IN  IF nw = {} THEN ""
        ELSE SubSeq(s, CHOOSE i \in nw : \A j \in 1 .. (i - 1) : j \notin nw,
                       CHOOSE i \in nw : \A j \in (i + 1) .. Len(s) : j \notin nw)

\* s.toLowerCase(), on the letters A..Z (the texts of the model hold no other capital)
LowerChar(c) ==
    LET UpperLetters == "ABCDEFGHIJKLMNOPQRSTUVWXYZ"
        LowerLetters == "abcdefghijklmnopqrstuvwxyz"
    IN  IF \E i \in 1 .. 26 : CharAt(UpperLetters, i) = c
        THEN CharAt(LowerLetters, CHOOSE i \in 1 .. 26 : CharAt(UpperLetters, i) = c)
        ELSE c

\* the recursions below halve their range, to keep them shallow on long texts
RECURSIVE toLowerCase(_)
toLowerCase(s) ==
    IF Len(s) = 0 THEN ""
    ELSE IF Len(s) = 1 THEN LowerChar(s)
    ELSE toLowerCase(SubSeq(s, 1, Len(s) \div 2))
            \o toLowerCase(SubSeq(s, Len(s) \div 2 + 1, Len(s)))

\* parts[a] sep ... sep parts[b]
RECURSIVE JoinRange(_, _, _, _)
JoinRange(parts, sep, a, b) ==
    IF a = b THEN parts[a]
    ELSE JoinRange(parts, sep, a, (a + b) \div 2) \o sep
            \o JoinRange(parts, sep, (a + b) \div 2 + 1, b)

\* parts.join(sep)
Join(parts, sep) == IF Len(parts) = 0 THEN "" ELSE JoinRange(parts, sep, 1, Len(parts))

\* ns[a] + ... + ns[b]
RECURSIVE SumRange(_, _, _)
SumRange(ns, a, b) ==
    IF a > b THEN 0
    ELSE IF a = b THEN ns[a]
    ELSE SumRange(ns, a, (a + b) \div 2) + SumRange(ns, (a + b) \div 2 + 1, b)

\* the text repeated n times
RECURSIVE Repeat(_, _)
Repeat(s, n) ==
    IF n = 0 THEN ""
    ELSE IF n % 2 = 0 THEN LET h == Repeat(s, n \div 2) IN h \o h
    ELSE s \o Repeat(s, n - 1)

----------------------------------------------------------------------------
(* Diff and review utilities of index.js *)

\* mutation: the remainder shorter than size is dropped
chunkStringDropsRemainder(str, size) ==
    IF ~Truthy(str) \/ Len(str.v) <= size THEN <<str>>
    ELSE [i \in 1 .. (Len(str.v) \div size) |->
            JStr(SubSeq(str.v, (i - 1) * size + 1, i * size))]

\* chunkString(str, size), for size >= 1 (main clamps it to 1000 at least)
chunkString(str, size) ==
    IF ~Truthy(str) \/ Len(str.v) <= size THEN <<str>>
    ELSE [i \in 1 .. ((Len(str.v) + size - 1) \div size) |->
            JStr(SubSeq(str.v, (i - 1) * size + 1, Min(i * size, Len(str.v))))]

\* mutation: a diff over the cap is cut with no marker after it
trimDiffNoMarker(patch, maxChars) ==
    IF ~Truthy(patch) THEN JStr("")
    ELSE IF Len(patch.v) <= maxChars THEN patch
    ELSE JStr(SubSeq(patch.v, 1, maxChars))

\* mutation: the diff is cut at maxChars + 1 characters
trimDiffOffByOne(patch, maxChars) ==
    IF ~Truthy(patch) THEN JStr("")
    ELSE IF Len(patch.v) <= maxChars THEN patch
    ELSE JStr(SubSeq(patch.v, 1, maxChars + 1) \o TRUNCATION_MARKER)

\* trimDiff(patch, maxChars)
trimDiff(patch, maxChars) ==
    IF ~Truthy(patch) THEN JStr("")
    ELSE IF Len(patch.v) <= maxChars THEN patch
    ELSE JStr(SubSeq(patch.v, 1, maxChars) \o TRUNCATION_MARKER)

\* mutation: a phrase of the list makes a review empty whatever its length
isEmptyReviewAnyLength(c) ==
    IF ~Truthy(c) \/ Len(trim(c.v)) < 20 THEN TRUE
    ELSE LET lower == toLowerCase(c.v)
             emptyPhrases ==
                 {"no issues", "looks good", "lgtm", "no problems", "no concerns", "sorun yok",
                  "problem yok", "iyi görünüyor", "nothing to report", "no suggestions"}
         IN  \E phrase \in emptyPhrases : includes(lower, phrase)

\* isEmptyReview(content)
isEmptyReview(c) ==
    IF ~Truthy(c) \/ Len(trim(c.v)) < 20 THEN TRUE
    ELSE LET lower == toLowerCase(c.v)
             trimmed == Len(trim(c.v))
             emptyPhrases ==
                 {"no issues", "looks good", "lgtm", "no problems", "no concerns", "sorun yok",
                  "problem yok", "iyi görünüyor", "nothing to report", "no suggestions"}
         IN  \E phrase \in emptyPhrases : includes(lower, phrase) /\ trimmed < 100

\* mutation: the ---/+++ file lines count as changes
getFirstHunkPositionCountsFileLines(patch) ==
    IF ~Truthy(patch) THEN 1
    ELSE LET s == patch.v
             lineStarts == {1} \cup {i + 1 : i \in {j \in 1 .. Len(s) : CharAt(s, j) = "\n"}}
             hits == {a \in lineStarts : StartsWithAt(s, a, "+") \/ StartsWithAt(s, a, "-")}
             first == SetMin(hits)
         IN  IF hits = {} THEN 1
             ELSE Cardinality({b \in lineStarts : b <= first})

\* getFirstHunkPosition(patch): the 1-based number of the first line of
\* patch.split("\n") that adds or removes content (not a ---/+++ file line), or 1
getFirstHunkPosition(patch) ==
    IF ~Truthy(patch) THEN 1
    ELSE LET s == patch.v
             \* the indexes at which the lines start
             lineStarts == {1} \cup {i + 1 : i \in {j \in 1 .. Len(s) : CharAt(s, j) = "\n"}}
             hits == {a \in lineStarts :
                         /\ StartsWithAt(s, a, "+") \/ StartsWithAt(s, a, "-")
                         /\ ~StartsWithAt(s, a, "+++")
                         /\ ~StartsWithAt(s, a, "---")}
             first == SetMin(hits)
         IN  IF hits = {} THEN 1
             ELSE Cardinality({b \in lineStarts : b <= first})

\* what reviewFile returns for the responses it kept; more than one are
\* labelled by responses.map((r, i) => "**Part ${i + 1}:**\n${r}") and joined
Aggregate(rs) ==
    IF Len(rs) = 0 THEN JNull
    ELSE IF Len(rs) = 1 THEN rs[1]
    ELSE JStr(Join([i \in 1 .. Len(rs) |->
                        "**Part " \o ToString(i) \o ":**\n" \o ToStr(rs[i])], "\n\n"))

\* the section of one file in the combined diff of summary mode
FileDiff(f, maxDiffCharsPerFile) ==
    "--- a/" \o f.filename \o "\n+++ b/" \o f.filename \o "\n"
        \o ToStr(trimDiff(f.patch, maxDiffCharsPerFile)) \o "\n"

\* mutation: the loop has no break, so it goes on to the files after the first
\* one that does not fit
DiffPartsGoesOn(files, maxChars, maxDiffCharsPerFile) ==
    LET n == Len(files)
        diffs == [i \in 1 .. n |-> FileDiff(files[i], maxDiffCharsPerFile)]
        RECURSIVE From(_, _, _)
        From(i, diffParts, totalChars) ==
            IF i > n THEN diffParts
            ELSE IF totalChars + Len(diffs[i]) > maxChars
            THEN From(i + 1, Append(diffParts, "...[" \o ToString(n - Len(diffParts))
                                                  \o " more files truncated]\n"), totalChars)
            ELSE From(i + 1, Append(diffParts, diffs[i]), totalChars + Len(diffs[i]))
    IN  From(1, <<>>, 0)

\* the array diffParts after the loop: a section is pushed while the total with it
\* stays within maxChars (the totals grow, so the sections pushed are those of the
\* files whose running total fits), then the marker with the count of those left
DiffParts(files, maxChars, maxDiffCharsPerFile) ==
    LET n == Len(files)
        diffs == [i \in 1 .. n |-> FileDiff(files[i], maxDiffCharsPerFile)]
        lens == [i \in 1 .. n |-> Len(diffs[i])]
        pushed == Cardinality({i \in 1 .. n : SumRange(lens, 1, i) <= maxChars})
    IN  IF pushed = n THEN diffs
        ELSE Append(SubSeq(diffs, 1, pushed),
                    "...[" \o ToString(n - pushed) \o " more files truncated]\n")

\* diffParts.join("\n")
DiffText(files, maxChars, maxDiffCharsPerFile) ==
    Join(DiffParts(files, maxChars, maxDiffCharsPerFile), "\n")

----------------------------------------------------------------------------
(* main: listing the changed files and selecting the reviewable ones *)

\* a changed file; patch is Undefined when the platform gives none
File(name, patch) == [filename |-> name, patch |-> patch]

PatchText == JStr("@@ -1 +1 @@\n-a\n+b")
Patches == {Undefined, JStr(""), PatchText}

\* f.patch && f.patch.length > 0
HasPatch(f) == f.patch.t = "string" /\ Len(f.patch.v) > 0

\* array.slice(0, n)
Slice0(arr, n) == SubSeq(arr, 1, Min(Max(n, 0), Len(arr)))

\* the mutation of SelectReviewable that slices before it filters
SelectSliceFirst(files, max) == SelectSeq(Slice0(files, max), HasPatch)

\* filesWithPatch = allFiles.filter(...); reviewableFiles = filesWithPatch.slice(0, maxFiles)
SelectReviewable(files, max) == Slice0(SelectSeq(files, HasPatch), max)

\* the page the platform returns for listFiles({ per_page, page })
ListFilesPage(files, perPage, p) ==
    SubSeq(files, (p - 1) * perPage + 1, Min(p * perPage, Len(files)))

\* the lists of changed files the runs start from: every list of up to MaxListLen
\* files, the 30-file list whose first 5 files have no patch, a 101-file list
FileName(i) == "f" \o ToString(i) \o ".js"
ShortLists ==
    UNION { { [i \in 1 .. n |-> File(FileName(i), ps[i])] : ps \in [1 .. n -> Patches] } :
            n \in 0 .. MaxListLen }
Example30 == [i \in 1 .. 30 |-> File(FileName(i), IF i <= 5 THEN Undefined ELSE PatchText)]
Example101 ==
    [i \in 1 .. 101 |-> File(FileName(i), IF i % 50 = 0 THEN Undefined ELSE PatchText)]
FileLists == ShortLists \cup {Example30, Example101}

\* values of the max_files input, as characters
RawMaxFiles == {<<>>, <<"0">>, <<"1">>, <<"2">>, <<"2", "5">>, <<"9", "9", "9">>, <<"a">>, <<"-", "3">>}

\* the inputs of the action and its environment, none of them set
NoInputs ==
    [token |-> FALSE, base_url |-> "", api_key |-> "", model |-> "", pull_request |-> FALSE,
     max_files |-> <<>>, max_chars |-> <<>>, fail_on_issues |-> "", comment_marker |-> "",
     review_mode |-> "", timeout_ms |-> <<>>, chunk_size_chars |-> <<>>,
     max_diff_chars_per_file |-> <<>>]

\* a pull_request run with the token and the required inputs, every option at its default
BaseInputs ==
    [NoInputs EXCEPT !.token = TRUE, !.base_url = "https://llm.example/v1", !.api_key = "key",
                     !.model = "m1", !.pull_request = TRUE]

\* the constants main reads from its inputs
SettingsOf(inp) ==
    [maxChars |-> clampInt(inp.max_chars, MAX_CHARS_DEFAULT, MAX_CHARS_MIN, MAX_CHARS_MAX),
     failOnIssues |->
        toLowerCase(IF inp.fail_on_issues # "" THEN inp.fail_on_issues ELSE "false") = "true",
     commentMarker |->
        IF inp.comment_marker # "" THEN inp.comment_marker ELSE DEFAULT_COMMENT_MARKER,
     reviewMode |-> IF inp.review_mode # "" THEN inp.review_mode ELSE "summary",
     timeoutMs |-> clampInt(inp.timeout_ms, DEFAULT_TIMEOUT_MS, TIMEOUT_MIN, TIMEOUT_MAX),
     chunkSizeChars |->
        clampInt(inp.chunk_size_chars, DEFAULT_CHUNK_SIZE, CHUNK_SIZE_MIN, CHUNK_SIZE_MAX),
     maxDiffCharsPerFile |->
        clampInt(inp.max_diff_chars_per_file, DEFAULT_MAX_DIFF_PER_FILE, MAX_DIFF_MIN, MAX_DIFF_MAX),
     model |-> inp.model]

\* core.getInput(name, { required: true }) throws for the first required input not supplied
RequiredInputs == <<"base_url", "api_key", "model">>
MissingInputs(inp) == {i \in 1 .. 3 : inp[RequiredInputs[i]] = ""}
ConfigError(inp) ==
    IF ~inp.token
    THEN [name |-> "Error", message |-> "GITHUB_TOKEN is required", id |-> 0]
    ELSE [name |-> "Error", id |-> 0,
          message |-> "Input required and not supplied: "
                        \o RequiredInputs[SetMin(MissingInputs(inp))]]

\* a rejected platform request (octokit RequestError)
PlatformError == [name |-> "HttpError", message |-> "Resource not accessible by integration",
                  status |-> 403, id |-> 0]

\* an entry of the orchestrator's log: core.info / core.warning about a file
Info(tag, file) == [level |-> "info", tag |-> tag, file |-> file]
Warning(tag, file) == [level |-> "warning", tag |-> tag, file |-> file]

\* the frame of a finished callLLM is gone
EndCall ==
    /\ pc' = "idle"
    /\ caller' = "none"
    /\ config' = [timeoutMs |-> 0]
    /\ attempt' = 0
    /\ timers' = {}
    /\ curErr' = Undefined
    /\ lastError' = Undefined
    /\ result' = [kind |-> "none"]
    /\ log' = <<>>
    /\ llmResult' = Undefined

\* mutation: the rejection of main is not reported
MainThrowsUnreported(err, lg) ==
    /\ mainPc' = "threw"
    /\ failed' = failed
    /\ runLog' = lg
    /\ EndCall

\* main rejects with err: main().catch(err => core.setFailed(...))
MainThrows(err, lg) ==
    /\ mainPc' = "threw"
    /\ failed' = Append(failed, err.message \o (IF HasStatus(err) /\ err.status # 0
                                                 THEN " (HTTP " \o ToString(err.status) \o ")"
                                                 ELSE ""))
    /\ runLog' = lg
    /\ EndCall

\* chunkInfo of reviewFile for chunk i of n
ChunkInfo(i, n) ==
    IF n > 1 THEN JStr("part " \o ToString(i) \o "/" \o ToString(n)) ELSE JNull

\* the diff content a call of callLLM is given: for file number `file` of reviewableFiles
\* (0: the combined diff of summary mode)
Request(file, filename, chunkInfo, diff) ==
    [file |-> file, filename |-> filename, chunkInfo |-> chunkInfo, diff |-> diff]

\* the inline loop reaches file i with these counts: reviewFile trims, chunks and asks
\* for the review of the first chunk, or the loop is over and main returns
ReviewFrom(files, i, sc, sk, lg, st) ==
    /\ successCount' = sc
    /\ skipCount' = sk
    /\ fileIdx' = i
    /\ responses' = <<>>
    /\ failed' = failed
    /\ IF i > Len(files)
       THEN /\ mainPc' = "done"
            /\ chunks' = <<>>
            /\ chunkIdx' = 0
            /\ sent' = sent
            /\ runLog' = lg \o <<Info("inline complete", ""), Info("completed", "")>>
            /\ EndCall
       ELSE LET cs == chunkString(trimDiff(files[i].patch, st.maxDiffCharsPerFile),
                                  st.chunkSizeChars)
            IN  /\ mainPc' = "reviewing"
                /\ chunks' = cs
                /\ chunkIdx' = 1
                /\ sent' = Append(sent, Request(i, files[i].filename,
                                                ChunkInfo(1, Len(cs)), cs[1]))
                /\ runLog' = Append(lg, Info("reviewing", files[i].filename))
                /\ StartCall(st.timeoutMs)

\* summary mode up to its await: the combined diff is built and the review asked for
SummarizeFrom(files, lg, st) ==
    /\ mainPc' = "reviewing"
    /\ sent' = Append(sent, Request(0, "", JNull,
                                    JStr(DiffText(files, st.maxChars, st.maxDiffCharsPerFile))))
    /\ runLog' = Append(lg, Info("estimated tokens", ""))
    /\ StartCall(st.timeoutMs)
    /\ UNCHANGED <<successCount, skipCount, fileIdx, responses, chunks, chunkIdx, failed>>

\* main up to its first await: the inputs are read and the first page is asked for
StartRun(inp) ==
    /\ mainPc = "init"
    /\ inputs' = inp
    /\ allFiles' = <<>>
    /\ page' = 1
    /\ IF ~inp.token \/ MissingInputs(inp) # {}
       THEN /\ MainThrows(ConfigError(inp), runLog)
            /\ UNCHANGED <<settings, maxFiles>>
       ELSE /\ settings' = SettingsOf(inp)
            /\ maxFiles' = clampInt(inp.max_files, MAX_FILES_DEFAULT, MAX_FILES_MIN, MAX_FILES_MAX)
            /\ IF inp.pull_request
               THEN /\ mainPc' = "listing"
                    /\ runLog' = Append(runLog, Info("starting", ""))
               ELSE /\ mainPc' = "notPR"
                    /\ runLog' = Append(runLog, Info("not a pull_request", ""))
            /\ UNCHANGED <<failed, fetchVars>>
    /\ UNCHANGED <<test, prFiles, reviewableFiles, reviewVars, commentVars>>

\* a page of listFiles arrives: the next page is asked for, or the files are selected
\* and the review starts in the mode asked for
ListFilesResp ==
    /\ mainPc = "listing"
    /\ LET data == ListFilesPage(prFiles, PER_PAGE, page)
           all == allFiles \o data
           files == SelectReviewable(all, maxFiles)
           lg == Append(runLog, Info("found files", ""))
       IN  /\ allFiles' = all
           /\ IF Len(data) < PER_PAGE
              THEN /\ reviewableFiles' = files
                   /\ UNCHANGED page
                   /\ IF Len(files) = 0
                      THEN /\ mainPc' = "skipped"
                           /\ runLog' = Append(lg, Info("no reviewable files", ""))
                           /\ UNCHANGED <<fetchVars, successCount, skipCount, fileIdx, responses,
                                          chunks, chunkIdx, sent, failed>>
                      ELSE IF settings.reviewMode = "inline"
                      THEN ReviewFrom(files, 1, 0, 0, lg, settings)
                      ELSE SummarizeFrom(files, lg, settings)
              ELSE /\ page' = page + 1
                   /\ UNCHANGED <<mainPc, reviewableFiles, runLog, fetchVars, successCount, skipCount,
                                  fileIdx, responses, chunks, chunkIdx, sent, failed>>
    /\ UNCHANGED <<test, prFiles, maxFiles, inputs, settings, answers, content, posts, reviews,
                   commentVars>>

\* the platform rejects a listFiles request: main rejects
ListFilesFail ==
    /\ mainPc = "listing"
    /\ MainThrows(PlatformError, runLog)
    /\ UNCHANGED <<test, prFiles, page, allFiles, maxFiles, reviewableFiles, inputs, settings,
                   reviewVars, commentVars>>

----------------------------------------------------------------------------
\* mutation: the caller goes on while the call is in a backoff sleep
SettledOrSleeping == pc \in {"returned", "thrown", "sleeping"}

\* await callLLM(...): the caller resumes when the call has returned or thrown
Settled == pc \in {"returned", "thrown"}

(* main: inline mode *)

\* mutation: every non-empty response is kept
KeepAll(rs, response) ==
    IF Truthy(response) THEN Append(rs, response) ELSE rs

\* if (response && !isEmptyReview(response)) responses.push(response)
Keep(rs, response) ==
    IF Truthy(response) /\ ~isEmptyReview(response) THEN Append(rs, response) ELSE rs

\* mutation: the request carries the entry of the file twice
ReviewRequestTwoEntries(file, reviewBody, model) ==
    LET entry == [path |-> file.filename, position |-> getFirstHunkPosition(file.patch),
                  body |-> "[robot] **AI Review** (" \o model \o ")\n\n"
                             \o ToStr(reviewBody)]
    IN  [event |-> "COMMENT", comments |-> <<entry, entry>>]

\* the createReview request postInlineReview makes for the file
ReviewRequest(file, reviewBody, model) ==
    [event |-> "COMMENT",
     comments |-> <<[path |-> file.filename, position |-> getFirstHunkPosition(file.patch),
                     body |-> "[robot] **AI Review** (" \o model \o ")\n\n"
                                \o ToStr(reviewBody)]>>]

\* mutation: an error while reviewing a file rejects main
FileFailedAborts(file, lg) ==
    /\ MainThrows(result.value, lg)
    /\ UNCHANGED <<successCount, skipCount, fileIdx, responses, chunks, chunkIdx, sent>>

\* mutation: the failure of a chunk is caught inside the chunk loop, which goes
\* on with the next chunk of the file
FileFailedNextChunk(file, lg) ==
    IF chunkIdx < Len(chunks)
    THEN /\ chunkIdx' = chunkIdx + 1
         /\ sent' = Append(sent, Request(fileIdx, file.filename,
                                         ChunkInfo(chunkIdx + 1, Len(chunks)),
                                         chunks[chunkIdx + 1]))
         /\ runLog' = Append(lg, Warning("failed chunk", file.filename))
         /\ StartCall(settings.timeoutMs)
         /\ UNCHANGED <<mainPc, fileIdx, chunks, responses, successCount, skipCount, failed>>
    ELSE ReviewFrom(reviewableFiles, fileIdx + 1, successCount, skipCount,
                    Append(lg, Warning("failed to review", file.filename)), settings)

\* catch (err) of the inline loop: the failure is logged and the loop goes on
FileFailed(file, lg) ==
    ReviewFrom(reviewableFiles, fileIdx + 1, successCount, skipCount,
               Append(lg, Warning("failed to review", file.filename)), settings)

\* callLLM settles for a chunk of the file the inline loop is at
LlmDoneInline ==
    /\ mainPc = "reviewing"
    /\ settings.reviewMode = "inline"
    /\ Settled
    /\ LET file == reviewableFiles[fileIdx]
           kept == Keep(responses, llmResult)
           reviewBody == Aggregate(kept)
       IN  IF pc = "thrown"
           THEN /\ FileFailed(file, runLog)
                /\ UNCHANGED <<answers, posts>>
           ELSE /\ answers' = Append(answers, [file |-> fileIdx, response |-> llmResult])
                /\ IF chunkIdx < Len(chunks)
                   THEN /\ chunkIdx' = chunkIdx + 1
                        /\ responses' = kept
                        /\ sent' = Append(sent, Request(fileIdx, file.filename,
                                                        ChunkInfo(chunkIdx + 1, Len(chunks)),
                                                        chunks[chunkIdx + 1]))
                        /\ runLog' = Append(runLog, Info("reviewing", file.filename))
                        /\ StartCall(settings.timeoutMs)
                        /\ UNCHANGED <<mainPc, fileIdx, chunks, successCount, skipCount, failed,
                                       posts>>
                   ELSE IF Truthy(reviewBody)
                   THEN /\ mainPc' = "posting"
                        /\ responses' = kept
                        /\ posts' = Append(posts, ReviewRequest(file, reviewBody, settings.model))
                        /\ EndCall
                        /\ UNCHANGED <<fileIdx, chunks, chunkIdx, sent, runLog, successCount,
                                       skipCount, failed>>
                   ELSE /\ ReviewFrom(reviewableFiles, fileIdx + 1, successCount, skipCount + 1,
                                      Append(runLog, Info("skipped", file.filename)), settings)
                        /\ UNCHANGED posts
    /\ UNCHANGED <<test, selectVars, inputs, settings, content, reviews, commentVars>>

\* the platform accepts the review: postInlineReview returns true
CreateReviewOk ==
    /\ mainPc = "posting"
    /\ reviews' = Append(reviews, posts[Len(posts)])
    /\ ReviewFrom(reviewableFiles, fileIdx + 1, successCount + 1, skipCount,
                  Append(runLog, Info("posted", reviewableFiles[fileIdx].filename)), settings)
    /\ UNCHANGED <<test, selectVars, inputs, settings, answers, content, posts, commentVars>>

\* mutation: a rejected review is counted as posted
CreateReviewFailCounted ==
    /\ mainPc = "posting"
    /\ ReviewFrom(reviewableFiles, fileIdx + 1, successCount + 1, skipCount,
                  Append(runLog, Warning("failed to post", reviewableFiles[fileIdx].filename)),
                  settings)
    /\ UNCHANGED <<test, selectVars, inputs, settings, answers, content, posts, reviews, commentVars>>

\* the platform rejects the review: postInlineReview logs it and returns false
CreateReviewFail ==
    /\ mainPc = "posting"
    /\ ReviewFrom(reviewableFiles, fileIdx + 1, successCount, skipCount,
                  Append(runLog, Warning("failed to post", reviewableFiles[fileIdx].filename)),
                  settings)
    /\ UNCHANGED <<test, selectVars, inputs, settings, answers, content, posts, reviews, commentVars>>

----------------------------------------------------------------------------
(* The sticky comment: createOrUpdateComment *)

JobIds == {1, 2}

\* `<!-- ${commentMarker} -->`
MarkerOf(commentMarker) == "<!-- " \o commentMarker \o " -->"

Comment(id, body) == [id |-> id, body |-> body]

\* what listComments({ per_page: 100 }) answers: the first page, oldest first
ListCommentsPage(cs) == SubSeq(cs, 1, Min(Len(cs), COMMENTS_PER_PAGE))

\* mutation: the first comment of the page is taken, whatever its body
FindExistingAny(data, marker) ==
    IF Len(data) = 0 THEN 0 ELSE 1

\* comments.data.find(c => (c.body || "").includes(marker)): its index, 0 when none
FindExisting(data, marker) ==
    IF \E i \in 1 .. Len(data) : includes(data[i].body, marker)
    THEN SetMin({i \in 1 .. Len(data) : includes(data[i].body, marker)})
    ELSE 0

NewId(cs) == IF Len(cs) = 0 THEN 1 ELSE SetMax({cs[i].id : i \in 1 .. Len(cs)}) + 1

\* mutation: the body is published without the marker line
createOrUpdateCommentBare(j, body, commentMarker) ==
    jobs' = [jobs EXCEPT ![j] = [pc |-> "listing", marker |-> MarkerOf(commentMarker),
                                 body |-> body,
                                 op |-> "none", target |-> 0, runs |-> jobs[j].runs + 1]]

\* createOrUpdateComment up to its first await: the comments are asked for
createOrUpdateComment(j, body, commentMarker) ==
    jobs' = [jobs EXCEPT ![j] = [pc |-> "listing", marker |-> MarkerOf(commentMarker),
                                 body |-> MarkerOf(commentMarker) \o "\n" \o body,
                                 op |-> "none", target |-> 0, runs |-> jobs[j].runs + 1]]

\* listComments answers job j: it asks for the update of the comment found, or for a new one
JobList(j) ==
    /\ jobs[j].pc = "listing"
    /\ LET data == ListCommentsPage(comments)
           existing == FindExisting(data, jobs[j].marker)
       IN  jobs' = [jobs EXCEPT ![j].pc = "writing",
                                ![j].op = IF existing # 0 THEN "update" ELSE "create",
                                ![j].target = IF existing # 0 THEN data[existing].id ELSE 0]
    /\ UNCHANGED <<comments, writes, fetchVars, runVars>>

\* the platform carries out the write job j asked for
JobWrite(j) ==
    /\ jobs[j].pc = "writing"
    /\ IF jobs[j].op = "update"
       THEN LET i == CHOOSE k \in 1 .. Len(comments) : comments[k].id = jobs[j].target
            IN  /\ comments' = [comments EXCEPT ![i].body = jobs[j].body]
                /\ writes' = Append(writes, [job |-> j, op |-> "update", id |-> jobs[j].target,
                                             before |-> comments[i].body])
       ELSE /\ comments' = Append(comments, Comment(NewId(comments), jobs[j].body))
            /\ writes' = Append(writes, [job |-> j, op |-> "create", id |-> NewId(comments),
                                         before |-> ""])
    /\ jobs' = [jobs EXCEPT ![j].pc = "done",
                            ![j].target = IF jobs[j].op = "update" THEN jobs[j].target
                                          ELSE NewId(comments)]
    /\ UNCHANGED <<fetchVars, runVars>>

\* the platform rejects the request job j is waiting for
JobFail(j) ==
    /\ jobs[j].pc \in {"listing", "writing"}
    /\ jobs' = [jobs EXCEPT ![j].pc = "failed"]
    /\ UNCHANGED <<comments, writes, fetchVars, runVars>>

----------------------------------------------------------------------------
(* main: summary mode *)

\* the report header, with a name for the robot emoji and ' for the backquote
Header(model, n) ==
    "## [robot] AI PR Review\n- Model: '" \o model \o "'\n- Files reviewed: "
        \o ToString(n) \o "\n"

criticalKeywords ==
    {"kritik", "critical", "security", "rce", "sql injection", "auth bypass", "vulnerability"}

\* mutation: the summary is published whatever the generation call returned
SummaryEmptyPublished(text) ==
    /\ mainPc' = "commenting"
    /\ content' = text
    /\ createOrUpdateComment(1, Header(settings.model, Len(reviewableFiles)) \o ToStr(text),
                             settings.commentMarker)
    /\ EndCall
    /\ UNCHANGED <<runLog, failed>>

\* if (!content) throw new Error("Model returned empty response")
SummaryEmpty(text) ==
    /\ content' = text
    /\ MainThrows([name |-> "Error", message |-> "Model returned empty response", id |-> 0],
                  runLog)
    /\ UNCHANGED jobs

\* callLLM settles in summary mode: main rejects, or the comment is asked for
LlmDoneSummary ==
    /\ mainPc = "reviewing"
    /\ settings.reviewMode # "inline"
    /\ Settled
    /\ IF pc = "thrown"
       THEN /\ MainThrows(result.value, runLog)
            /\ UNCHANGED <<content, jobs>>
       ELSE IF ~Truthy(llmResult)
       THEN SummaryEmpty(llmResult)
       ELSE /\ mainPc' = "commenting"
            /\ content' = llmResult
            /\ createOrUpdateComment(1, Header(settings.model, Len(reviewableFiles))
                                            \o ToStr(llmResult), settings.commentMarker)
            /\ EndCall
            /\ UNCHANGED <<runLog, failed>>
    /\ UNCHANGED <<test, selectVars, inputs, settings, fileIdx, chunks, chunkIdx, responses, answers,
                   sent, posts, reviews, successCount, skipCount, comments, writes>>

\* mutation: the keywords are looked for whatever fail_on_issues says
PolicyFlaggedAlways(text) ==
    \E k \in criticalKeywords : includes(toLowerCase(ToStr(text)), k)

\* the check after the comment is published: fail_on_issues and a keyword in the text
PolicyFlagged(text) ==
    /\ settings.failOnIssues
    /\ \E k \in criticalKeywords : includes(toLowerCase(ToStr(text)), k)

\* createOrUpdateComment settles: main rejects, or checks the policy and returns
CommentDone ==
    /\ mainPc = "commenting"
    /\ jobs[1].pc \in {"done", "failed"}
    /\ IF jobs[1].pc = "failed"
       THEN MainThrows(PlatformError, runLog)
       ELSE /\ mainPc' = "done"
            /\ runLog' = runLog \o <<Info("summary posted", ""), Info("completed", "")>>
            /\ failed' = IF PolicyFlagged(content)
                         THEN Append(failed, "Critical issues detected by AI review (fail_on_issues=true).")
                         ELSE failed
            /\ UNCHANGED fetchVars
    /\ UNCHANGED <<test, selectVars, inputs, settings, reviewVars, commentVars>>

----------------------------------------------------------------------------
(* Initial values *)

InitCallVars ==
    /\ pc = "idle"
    /\ caller = "none"
    /\ config = [timeoutMs |-> 0]
    /\ attempt = 0
    /\ timers = {}
    /\ curErr = Undefined
    /\ lastError = Undefined
    /\ result = [kind |-> "none"]
    /\ log = <<>>
    /\ llmResult = Undefined

InitRunVars ==
    /\ test = [fn |-> "none"]
    /\ inputs = NoInputs
    /\ settings = [maxChars |-> 0, failOnIssues |-> FALSE, commentMarker |-> "",
                   reviewMode |-> "", timeoutMs |-> 0, chunkSizeChars |-> 0,
                   maxDiffCharsPerFile |-> 0, model |-> ""]
    /\ fileIdx = 0
    /\ chunks = <<>>
    /\ chunkIdx = 0
    /\ responses = <<>>
    /\ answers = <<>>
    /\ sent = <<>>
    /\ content = Undefined
    /\ posts = <<>>
    /\ reviews = <<>>
    /\ runLog = <<>>
    /\ failed = <<>>
    /\ successCount = 0
    /\ skipCount = 0

InitCommentVars(history) ==
    /\ comments = history
    /\ jobs = [j \in JobIds |-> [pc |-> "idle", marker |-> "", body |-> "", op |-> "none",
                                  target |-> 0, runs |-> 0]]
    /\ writes = <<>>

----------------------------------------------------------------------------
(* The executor's specification *)

Init ==
    /\ pc = "idle"
    /\ caller = "none"
    /\ config = [timeoutMs |-> 0]
    /\ attempt = 0
    /\ timers = {}
    /\ curErr = Undefined
    /\ lastError = Undefined
    /\ result = [kind |-> "none"]
    /\ log = <<>>
    /\ llmResult = Undefined
    /\ mainPc = "init"
    /\ prFiles = <<>>
    /\ page = 1
    /\ allFiles = <<>>
    /\ maxFiles = 0
    /\ reviewableFiles = <<>>
    /\ InitRunVars
    /\ InitCommentVars(<<>>)

Next ==
    \/ \E cfg \in Configs : fetchJson(cfg)
    \/ \E t \in Timeouts : callLLM(t)
    \/ \E s \in Statuses, x \in RespTexts : Respond(s, x)
    \/ Abort
    \/ NetworkFail
    \/ SleepDone

Spec == Init /\ [][Next]_vars

----------------------------------------------------------------------------
(* The specification of the utility functions, called as the unit tests call them *)

\* every text of at most n characters of the alphabet
RECURSIVE TextsUpTo(_, _)
TextsUpTo(alphabet, n) ==
    IF n = 0 THEN {""}
    ELSE LET shorter == TextsUpTo(alphabet, n - 1)
         IN  shorter \cup {s \o c : s \in shorter, c \in alphabet}

\* a unit test: one call, on its own
Test(call) ==
    /\ test.fn = "none"
    /\ test' = call
    /\ UNCHANGED <<fetchVars, mainPc, selectVars, inputs, settings, reviewVars, runLog, failed,
                   commentVars>>

\* chunkString(str, size)
TestChunkString ==
    \E str \in {Undefined, JNull} \cup {JStr(t) : t \in TextsUpTo({"a", "b"}, MaxTextLen)},
       size \in 1 .. MaxTextLen :
        Test([fn |-> "chunkString", str |-> str, size |-> size,
              ret |-> chunkString(str, size)])

\* trimDiff(patch, maxChars)
TestTrimDiff ==
    \E patch \in {Undefined, JNull} \cup {JStr(t) : t \in TextsUpTo({"a", "b"}, MaxTextLen)},
       maxChars \in 0 .. MaxTextLen :
        Test([fn |-> "trimDiff", patch |-> patch, maxChars |-> maxChars,
              ret |-> trimDiff(patch, maxChars)])

\* isEmptyReview(content): texts of n characters around the two length thresholds (or
\* their start alone), with and without a phrase of the list and white space around
TestIsEmptyReview ==
    \E start \in {"", "LGTM ", "Looks Good, ", "Line 3 is fine; ", "NOTHING TO REPORT "},
       n \in {0, 19, 20, 99, 100}, pad \in {"", " \n\t"}, absent \in {Undefined, JNull, JStr("")} :
        LET text == pad \o start \o (IF n = 0 THEN "" ELSE Repeat("x", n - Len(start))) \o pad
            arg == IF n = 0 /\ start = "" THEN absent ELSE JStr(text)
        IN  Test([fn |-> "isEmptyReview", content |-> arg, ret |-> isEmptyReview(arg)])

\* getFirstHunkPosition(patch)
TestGetFirstHunkPosition ==
    \E patch \in {Undefined, JNull}
                    \cup {JStr(t) : t \in TextsUpTo({"+", "-", "\n", "x"}, MaxTextLen)} :
        Test([fn |-> "getFirstHunkPosition", patch |-> patch,
              ret |-> getFirstHunkPosition(patch)])

\* createHttpError(json, text, status)
TestCreateHttpError ==
    \E json \in {JNull, EmptyObj, JsonParse(TextErrMsg), JsonParse(TextErrStr),
                  JsonParse(TextErrObj), JObj("error" :> JStr("")), JObj("error" :> JNull)},
       text \in {"", "raw text"}, status \in {404, 500} :
        Test([fn |-> "createHttpError", json |-> json, text |-> text, status |-> status,
              ret |-> createHttpError(json, text, status, 0)])

\* clampInt on an absent value and on every text of up to MaxRawLen characters,
\* with the limits of max_files and of the calls of http.test.js 149-175;
\* val ?? "" turns an absent value into the empty text before it is parsed
TestClampInt ==
    LET RECURSIVE CharsUpTo(_)
        CharsUpTo(n) ==
            IF n = 0 THEN {<<>>}
            ELSE LET shorter == CharsUpTo(n - 1)
                 IN  shorter \cup {Append(s, c) : s \in shorter,
                                                  c \in {"0", "1", "7", "-", "+", "a", "."}}
    IN  \E raw \in {Undefined, JNull} \cup {JStr(cs) : cs \in CharsUpTo(MaxRawLen)},
           lim \in {<<MAX_FILES_DEFAULT, MAX_FILES_MIN, MAX_FILES_MAX>>, <<10, 0, 100>>,
                    <<25, 1, 50>>, <<10, 10, 100>>} :
            LET val == IF raw \in {Undefined, JNull} THEN <<>> ELSE raw.v
            IN  Test([fn |-> "clampInt", raw |-> raw, def |-> lim[1], min |-> lim[2],
                      max |-> lim[3], ret |-> clampInt(val, lim[1], lim[2], lim[3])])

NextTests ==
    \/ TestClampInt
    \/ TestChunkString
    \/ TestTrimDiff
    \/ TestIsEmptyReview
    \/ TestGetFirstHunkPosition
    \/ TestCreateHttpError

SpecTests == Init /\ [][NextTests]_vars

----------------------------------------------------------------------------
(* The specification of one fetchJson call whose awaits all settle *)

\* the awaited fetch settles: a response, a connection error, or the deadline
\* timer set at the head of the attempt fires and aborts the request
AttemptSettles ==
    \/ \E s \in {200, 404, 503} : Respond(s, TextNotJson)
    \/ Abort
    \/ NetworkFail

NextLive ==
    \/ \E cfg \in Configs : fetchJson(cfg)
    \/ AttemptSettles
    \/ SleepDone

\* setTimeout(() => controller.abort(), timeoutMs) ends every pending fetch, and
\* the timer of sleep(delay) fires
SpecLive == Init /\ [][NextLive]_vars /\ WF_vars(AttemptSettles) /\ WF_vars(SleepDone)

----------------------------------------------------------------------------
(* The specification of callLLM over the bodies an endpoint answers with *)

NextLLM ==
    \/ \E t \in Timeouts : callLLM(t)
    \/ \E s \in {200, 404, 503}, x \in Texts : Respond(s, x)
    \/ Abort
    \/ NetworkFail
    \/ SleepDone

SpecLLM == Init /\ [][NextLLM]_vars

----------------------------------------------------------------------------
(* The specification of main's file selection *)

InitMain ==
    /\ pc = "idle"
    /\ caller = "none"
    /\ config = [timeoutMs |-> 0]
    /\ attempt = 0
    /\ timers = {}
    /\ curErr = Undefined
    /\ lastError = Undefined
    /\ result = [kind |-> "none"]
    /\ log = <<>>
    /\ llmResult = Undefined
    /\ mainPc = "init"
    /\ prFiles \in FileLists
    /\ page = 1
    /\ allFiles = <<>>
    /\ maxFiles = 0
    /\ reviewableFiles = <<>>
    /\ InitRunVars
    /\ InitCommentVars(<<>>)

NextMain ==
    \/ \E raw \in RawMaxFiles : StartRun([BaseInputs EXCEPT !.max_files = raw])
    \/ ListFilesResp

SpecMain == InitMain /\ [][NextMain]_vars

----------------------------------------------------------------------------
(* The specification of a run of main *)

HumanComment(id) == Comment(id, "Thanks, I will take a look.")
StickyBefore(id, commentMarker) ==
    Comment(id, MarkerOf(commentMarker) \o "\n" \o Header("m1", 1) \o ReviewKept)

\* the runs of the model: the changed files and comments of the pull request, and the inputs
Scenarios ==
    LET \* the values of the numeric inputs, as characters
        Raw1000 == <<"1", "0", "0", "0">>
        Raw1500 == <<"1", "5", "0", "0">>
        Raw10000 == <<"1", "0", "0", "0", "0">>
        Inline == [BaseInputs EXCEPT !.review_mode = "inline"]
        \* a patch of n characters: a hunk header and added lines of 100 characters
        PatchOfLen(n) ==
            JStr(SubSeq("@@ -1 +1 @@\n"
                            \o Repeat("+" \o Repeat("x", 98) \o "\n", n \div 100 + 1), 1, n))
    IN
    { \* inline: a long diff trimmed to 1500 and sent in two chunks, an image, a short diff
      [files |-> <<File("a.js", PatchOfLen(2500)), File("c.png", Undefined),
                   File("b.js", PatchText)>>,
       comments |-> <<>>,
       inputs |-> [Inline EXCEPT !.chunk_size_chars = Raw1000,
                                 !.max_diff_chars_per_file = Raw1500]],
      \* inline: a diff under the cap sent in three chunks; chunk_size_chars is set
      \* to 0 and clamped to 1000
      [files |-> <<File("a.js", PatchOfLen(2500))>>,
       comments |-> <<HumanComment(1)>>,
       inputs |-> [Inline EXCEPT !.chunk_size_chars = <<"0">>, !.fail_on_issues = "true"]],
      \* inline, every option at its default
      [files |-> <<File("b.js", PatchText), File("a.js", PatchText)>>,
       comments |-> <<HumanComment(1), HumanComment(2)>>,
       inputs |-> Inline],
      \* summary: two sections that fill max_chars exactly
      [files |-> <<File("a.js", PatchOfLen(4977)), File("b.js", PatchOfLen(4977))>>,
       comments |-> <<>>,
       inputs |-> [BaseInputs EXCEPT !.max_chars = Raw10000, !.fail_on_issues = "true"]],
      \* summary: the second section does not fit; a comment of an earlier run is there
      [files |-> <<File("a.js", PatchOfLen(4977)), File("b.js", PatchOfLen(4978))>>,
       comments |-> <<HumanComment(1), StickyBefore(2, DEFAULT_COMMENT_MARKER)>>,
       inputs |-> [BaseInputs EXCEPT !.max_chars = Raw10000, !.fail_on_issues = "TRUE",
                                     !.review_mode = "summary"]],
      \* summary: the second section does not fit, the third would
      [files |-> <<File("a.js", PatchOfLen(4977)), File("d.js", PatchOfLen(6000)),
                   File("b.js", PatchText)>>,
       comments |-> <<>>,
       inputs |-> [BaseInputs EXCEPT !.max_chars = Raw10000]],
      \* summary with its own marker, every other option at its default
      [files |-> <<File("c.png", Undefined), File("b.js", PatchText)>>,
       comments |-> <<StickyBefore(1, DEFAULT_COMMENT_MARKER), HumanComment(2)>>,
       inputs |-> [BaseInputs EXCEPT !.comment_marker = "GENERAL_REVIEW"]],
      \* no file with a diff, in either mode
      [files |-> <<File("c.png", Undefined)>>, comments |-> <<HumanComment(1)>>,
       inputs |-> Inline],
      [files |-> <<File("c.png", Undefined), File("d.bin", JStr(""))>>, comments |-> <<>>,
       inputs |-> BaseInputs],
      \* not a pull_request event; no token; a required input not supplied
      [files |-> <<>>, comments |-> <<>>, inputs |-> [BaseInputs EXCEPT !.pull_request = FALSE]],
      [files |-> <<File("b.js", PatchText)>>, comments |-> <<HumanComment(1)>>,
       inputs |-> [BaseInputs EXCEPT !.token = FALSE]],
      [files |-> <<File("b.js", PatchText)>>, comments |-> <<StickyBefore(1, "GENERAL_REVIEW")>>,
       inputs |-> [BaseInputs EXCEPT !.model = ""]] }

InitRun ==
    /\ InitCallVars
    /\ mainPc = "init"
    /\ page = 1
    /\ allFiles = <<>>
    /\ maxFiles = 0
    /\ reviewableFiles = <<>>
    /\ InitRunVars
    /\ \E sc \in Scenarios :
        /\ prFiles = sc.files
        /\ InitCommentVars(sc.comments)

NextRun ==
    \/ \E sc \in Scenarios : sc.files = prFiles /\ sc.comments = comments /\ StartRun(sc.inputs)
    \/ ListFilesResp
    \/ ListFilesFail
    \* the generation endpoint answers: a review, a rejection, an overload
    \/ \E r \in {<<200, TextReview(c)>> : c \in ReviewTexts}
                    \cup {<<400, TextErrMsg>>, <<503, TextNotJson>>} : Respond(r[1], r[2])
    \/ Abort
    \/ NetworkFail
    \/ SleepDone
    \/ LlmDoneInline
    \/ CreateReviewOk
    \/ CreateReviewFail
    \/ LlmDoneSummary
    \/ JobList(1)
    \/ JobWrite(1)
    \/ JobFail(1)
    \/ CommentDone

SpecRun == InitRun /\ [][NextRun]_vars

----------------------------------------------------------------------------
(* The specification of the summary comment under reruns and a second job *)

MaxRuns == 2    \* most runs of one job on the pull request

\* the comment markers of the two jobs
JobMarkers == <<"GENERAL_REVIEW", "CODE_REVIEW">>

\* a run of job j reaches createOrUpdateComment with this summary
JobStart(j, text) ==
    /\ jobs[j].pc \in {"idle", "done"}
    /\ jobs[j].runs < MaxRuns
    /\ createOrUpdateComment(j, Header("m" \o ToString(j), 1) \o text, JobMarkers[j])
    /\ UNCHANGED <<comments, writes, fetchVars, runVars>>

InitJobs ==
    /\ InitCallVars
    /\ mainPc = "init"
    /\ prFiles = <<>>
    /\ page = 1
    /\ allFiles = <<>>
    /\ maxFiles = 0
    /\ reviewableFiles = <<>>
    /\ InitRunVars
    \* the comments on the pull request before the first run: n of them, none by a job
    /\ \E n \in {0, 1, 99, 100} : InitCommentVars([i \in 1 .. n |-> HumanComment(i)])

NextJobs ==
    \E j \in JobIds :
        \/ \E text \in {ReviewKept, ReviewCritical} : JobStart(j, text)
        \/ JobList(j)
        \/ JobWrite(j)

SpecJobs == InitJobs /\ [][NextJobs]_vars

----------------------------------------------------------------------------
(* Reading the record of a call *)

Ended == pc \in {"returned", "thrown"}
Started == caller # "none"

\* the attempt count the caller asked for (3 when it asked for none)
AskedMaxRetries == IF "maxRetries" \in DOMAIN config THEN config.maxRetries ELSE 3

\* the base delay the caller asked for (1000 when it asked for none)
AskedBaseDelay == IF "baseDelay" \in DOMAIN config THEN config.baseDelay ELSE 1000

RetryableStatus(status) == status \in {408, 429} \cup (500 .. 599)
SuccessStatus(status) == status \in 200 .. 299

NumReq == Cardinality({i \in DOMAIN log : log[i].e = "req"})
IsLast(i) == i = Len(log)
EvAt(i, e) == i \in DOMAIN log /\ log[i].e = e

\* the events of the retry that follows the failure recorded at index i:
\* the observer's call when there is an observer, then the sleep
RetryAfter(i, status, k, delay) ==
    LET n == IF "onRetry" \in DOMAIN config THEN 1 ELSE 0
    IN  /\ n = 1 => EvAt(i + 1, "notify") /\ log[i + 1].attempt = k
                    /\ log[i + 1].status = status /\ log[i + 1].delay = delay
        /\ EvAt(i + n + 1, "sleep") /\ log[i + n + 1].delay = delay
        /\ \/ IsLast(i + n + 1) /\ pc = "sleeping"
           \/ EvAt(i + n + 2, "req") /\ log[i + n + 2].attempt = k + 1

\* the call failed at index i + 1 with the error err, and did nothing after
FailsAt(i, err) ==
    /\ EvAt(i + 1, "throw")
    /\ IsLast(i + 1)
    /\ pc = "thrown"
    /\ result = [kind |-> "throw", value |-> err]

----------------------------------------------------------------------------
(* Claims *)

\* C1: a non-success response on attempt k is followed by another request
\* exactly when its status is 408, 429 or 5xx and k < maxRetries; any other
\* status, and a retryable one on the last attempt, fails the call at once
\* with that response's error: no sleep, no observer call, no further request.
C1_RetryIffRetryableAndAttemptsRemain ==
    \A i \in DOMAIN log :
        (log[i].e = "resp" /\ ~SuccessStatus(log[i].status)) =>
            LET k == log[i].attempt
                status == log[i].status
            IN  IF RetryableStatus(status) /\ k < AskedMaxRetries
                THEN RetryAfter(i, status, k, 1000 * (2 ^ (k - 1)))
                ELSE /\ FailsAt(i, result.value)
                     /\ result.value.name = "Error"
                     /\ result.value.status = status
                     /\ result.value.body = log[i].text
                     /\ result.value.id = k

\* a terminal status on attempt 2 of a call that had attempts left, reached
\* after a retryable status on attempt 1 was retried
C1_Witness ==
    /\ pc = "thrown"
    /\ AskedMaxRetries >= 3
    /\ \E i, j \in DOMAIN log :
        /\ log[i].e = "resp" /\ log[i].attempt = 1 /\ log[i].status = 429
        /\ log[j].e = "resp" /\ log[j].attempt = 2 /\ log[j].status = 404
        /\ IsLast(j + 1)

\* C2: the first response with a success status ends the call: the decoded
\* body is returned and no request, sleep or observer call follows, however
\* many attempts failed before.
C2_SuccessEndsCall ==
    \A i \in DOMAIN log :
        (log[i].e = "resp" /\ SuccessStatus(log[i].status)) =>
            /\ EvAt(i + 1, "return")
            /\ IsLast(i + 1)
            /\ pc = "returned"
            /\ result = [kind |-> "return",
                         value |-> IF JsonParse(log[i].text) = Undefined THEN JNull
                                   ELSE JsonParse(log[i].text)]
            /\ \A j \in 1 .. (i - 1) : ~(log[j].e = "resp" /\ SuccessStatus(log[j].status))

\* a success on attempt 3, after a failed attempt 1 and a failed attempt 2
C2_Witness ==
    /\ pc = "returned"
    /\ attempt = 3
    /\ \E i \in DOMAIN log : log[i].e = "resp" /\ log[i].attempt = 3 /\ log[i].status = 204
    /\ \E i \in DOMAIN log : log[i].e = "sleep"
    /\ result.value # JNull

\* every attempt so far ended in a retryable outcome
AllOutcomesRetryable ==
    \A i \in DOMAIN log :
        /\ log[i].e = "resp" => RetryableStatus(log[i].status)
        /\ log[i].e # "return"

\* C3: a call with maxRetries >= 1 issues at most maxRetries requests (3 when
\* maxRetries is not supplied), whatever the outcomes; it issues exactly
\* maxRetries when every attempt fails with a retryable outcome.
C3_AtMostMaxRetriesRequests ==
    (Started /\ AskedMaxRetries >= 1) =>
        /\ NumReq <= AskedMaxRetries
        /\ NumReq = attempt
        /\ "maxRetries" \notin DOMAIN config => NumReq <= 3
        /\ (Ended /\ AllOutcomesRetryable) => NumReq = AskedMaxRetries

\* four failed requests of a call with maxRetries = 4: HTTP 503, a timeout,
\* a network error, HTTP 429
C3_Witness ==
    /\ pc = "thrown"
    /\ AskedMaxRetries = 4
    /\ NumReq = 4
    /\ AllOutcomesRetryable
    /\ \E i \in DOMAIN log : log[i].e = "abort"
    /\ \E i \in DOMAIN log : log[i].e = "neterr"

\* the delays slept so far, in order
RECURSIVE DelaysOf(_)
DelaysOf(lg) ==
    IF lg = <<>> THEN <<>>
    ELSE IF Head(lg).e = "sleep" THEN <<Head(lg).delay>> \o DelaysOf(Tail(lg))
    ELSE DelaysOf(Tail(lg))
Sleeps == DelaysOf(log)

\* every attempt so far was answered with 429 or a 5xx status
KeepsFailingWithStatus ==
    \A i \in DOMAIN log :
        /\ log[i].e = "resp" => log[i].status \in {429} \cup (500 .. 599)
        /\ log[i].e \notin {"return", "abort", "neterr"}

\* C4: with the default settings a request that keeps failing with 429 or 5xx
\* is retried 3 times after the initial request, and the sleeps before those
\* retries are 1000, 2000 and 4000 ms.
C4_ThreeRetriesAfterInitial ==
    ("maxRetries" \notin DOMAIN config /\ pc = "thrown" /\ KeepsFailingWithStatus) =>
        /\ NumReq = 1 + 3
        /\ Sleeps = <<1000, 2000, 4000>>

\* a failure that is retried with the backoff sleep: a retryable status or a
\* network error, on an attempt that is not the last
BackoffFailure(i) ==
    /\ \/ log[i].e = "resp" /\ RetryableStatus(log[i].status)
       \/ log[i].e = "neterr"
    /\ log[i].attempt < AskedMaxRetries

\* C5: after attempt k fails with a retryable status or a network error and
\* k < maxRetries, the sleep before attempt k + 1 is 1000 * 2^(k-1), the base
\* delay being 1000; nothing is slept before attempt 1; with maxRetries >= 4
\* the sleeps before attempts 2, 3, 4 are 1000, 2000, 4000; and
\* calculateBackoff(k, b) = b * 2^(k-1).
C5_BackoffIsBaseTimesPowerOfTwo ==
    /\ \A i \in DOMAIN log :
        /\ BackoffFailure(i) =>
              RetryAfter(i, log[i].status, log[i].attempt, 1000 * (2 ^ (log[i].attempt - 1)))
        /\ log[i].e = "sleep" =>
              /\ log[i].delay = 1000 * (2 ^ (log[i].attempt - 1))
              /\ \E j \in 1 .. (i - 1) : BackoffFailure(j) /\ log[j].attempt = log[i].attempt
        /\ (log[i].e = "req" /\ log[i].attempt = 1) => i = 1
    /\ (\A i \in DOMAIN log : log[i].e # "abort") =>
          \A n \in 1 .. Len(Sleeps) : Sleeps[n] = <<1000, 2000, 4000, 8000, 16000>>[n]
    /\ \A k \in 1 .. 6 : \A b \in {1, 500, 1000} : calculateBackoff(k, b) = b * (2 ^ (k - 1))
    /\ calculateBackoff(4, 1000) = 8000

\* attempt 4 of a call is under way after sleeps of 1000, 2000 and 4000 ms
C5_Witness ==
    /\ AskedMaxRetries >= 4
    /\ pc = "fetching"
    /\ attempt = 4
    /\ Sleeps = <<1000, 2000, 4000>>

\* C6 as stated: the call makes at most the asked number of attempts and
\* sleeps b * 2^(k-1) after failed attempt k, b being the base delay chosen
\* for the call.
C6_BaseDelayPerCall ==
    /\ Started => NumReq <= AskedMaxRetries
    /\ \A i \in DOMAIN log :
        log[i].e = "sleep" => log[i].delay = AskedBaseDelay * (2 ^ (log[i].attempt - 1))

\* C6 amended: the attempt count is a per-call value of fetchJson (default 3)
\* and the call makes at most that many attempts; the base delay is the
\* constant 1000 for every call, whatever base delay the caller asks for;
\* callLLM passes only timeoutMs, so its calls make at most 3 attempts.
C6_MaxRetriesPerCallBaseDelayConstant ==
    /\ Started => NumReq <= AskedMaxRetries
    /\ \A i \in DOMAIN log :
        log[i].e = "sleep" => log[i].delay = 1000 * (2 ^ (log[i].attempt - 1))
    /\ caller = "callLLM" => DOMAIN config = {"timeoutMs"} /\ NumReq <= 3

\* a call that asked for a base delay of 500 and 2 attempts has slept 1000 ms
\* and ended after its second request
C6_Witness ==
    /\ "baseDelay" \in DOMAIN config
    /\ config.baseDelay = 500
    /\ AskedMaxRetries = 2
    /\ Ended
    /\ NumReq = 2
    /\ Sleeps = <<1000>>

\* C7: when the deadline of attempt k fires, the attempt is a Timeout with
\* status 408: if k < maxRetries the observer is called with delay 0 and the
\* request of attempt k + 1 follows with no sleep; if k = maxRetries the call
\* fails with an error of status 408.
C7_TimeoutRetriesWithoutSleep ==
    \A i \in DOMAIN log :
        log[i].e = "abort" =>
            LET k == log[i].attempt
                n == IF "onRetry" \in DOMAIN config THEN 1 ELSE 0
            IN  IF k < AskedMaxRetries
                THEN /\ n = 1 => EvAt(i + 1, "notify") /\ log[i + 1].status = 408
                                 /\ log[i + 1].attempt = k /\ log[i + 1].delay = 0
                     /\ EvAt(i + n + 1, "req")
                     /\ log[i + n + 1].attempt = k + 1
                ELSE /\ FailsAt(i, result.value)
                     /\ result.value.status = 408
                     /\ result.value.id = k
                     /\ "body" \notin DOMAIN result.value

\* a timeout on attempt 1 was announced and retried at once, and a timeout on
\* the last attempt failed the call
C7_Witness ==
    /\ pc = "thrown"
    /\ AskedMaxRetries = 2
    /\ "onRetry" \in DOMAIN config
    /\ Len(log) = 6
    /\ log[2].e = "abort" /\ log[3].e = "notify" /\ log[4].e = "req" /\ log[5].e = "abort"
    /\ result.value.status = 408

\* C8: when attempt k fails with a connection-level error: if k < maxRetries
\* the observer is called, the call sleeps 1000 * 2^(k-1) and then issues
\* attempt k + 1; if k = maxRetries that error itself is thrown to the caller.
C8_NetworkErrorBackoffOrPropagate ==
    \A i \in DOMAIN log :
        log[i].e = "neterr" =>
            LET k == log[i].attempt
            IN  IF k < AskedMaxRetries
                THEN RetryAfter(i, 0, k, 1000 * (2 ^ (k - 1)))
                ELSE FailsAt(i, [name |-> "TypeError", message |-> "fetch failed", id |-> k])

\* a network error on attempt 1 was retried after a sleep, and a network
\* error on the last attempt was thrown
C8_Witness ==
    /\ pc = "thrown"
    /\ AskedMaxRetries = 2
    /\ \E i, j \in DOMAIN log :
        /\ log[i].e = "neterr" /\ log[i].attempt = 1
        /\ log[j].e = "neterr" /\ log[j].attempt = 2
    /\ Sleeps = <<1000>>
    /\ result.value.name = "TypeError"

\* a Timeout, a network error or an HTTP error with a retryable status
RetryableFailure(err) ==
    \/ "status" \notin DOMAIN err
    \/ RetryableStatus(err.status)

\* C9: a retryable failure reaches the caller only from attempt number
\* maxRetries, and when a call fails the error thrown is the one made by the
\* last attempt, never one of an earlier attempt.
C9_ThrownErrorIsLastAttempts ==
    (pc = "thrown" /\ AskedMaxRetries >= 1) =>
        /\ "id" \in DOMAIN result.value
        /\ result.value.id = NumReq
        /\ RetryableFailure(result.value) => result.value.id = AskedMaxRetries
        /\ lastError # Undefined => lastError.id < result.value.id

\* a call failed on its third and last attempt after two recorded failures
C9_Witness ==
    /\ pc = "thrown"
    /\ AskedMaxRetries = 3
    /\ lastError # Undefined
    /\ lastError.id = 2
    /\ result.value.id = 3
    /\ RetryableFailure(result.value)

\* the file has diff content
HasDiff(f) == f.patch # Undefined /\ f.patch # JStr("")

\* the index in files of the j-th file that has diff content
NthWithDiff(files, j) ==
    CHOOSE i \in DOMAIN files :
        HasDiff(files[i]) /\ Cardinality({m \in 1 .. i : HasDiff(files[m])}) = j

NumWithDiff(files) == Cardinality({i \in DOMAIN files : HasDiff(files[i])})

\* C10: the reviewable files are the first max_files entries, in listing
\* order, of the changed files that have diff content: no file without diff
\* content is among them, and when at least max_files files have diff content
\* exactly max_files are reviewed (30 files, 5 without diff, max_files 25: 25).
C10_FilterBeforeSlice ==
    mainPc \in {"reviewing", "skipped"} =>
        /\ allFiles = prFiles
        /\ Len(reviewableFiles) = IF NumWithDiff(prFiles) < maxFiles
                                  THEN NumWithDiff(prFiles) ELSE maxFiles
        /\ \A j \in DOMAIN reviewableFiles :
              /\ HasDiff(reviewableFiles[j])
              /\ reviewableFiles[j] = prFiles[NthWithDiff(prFiles, j)]
        /\ (prFiles = Example30 /\ maxFiles = 25) => Len(reviewableFiles) = 25
        /\ (mainPc = "skipped") = (reviewableFiles = <<>>)

\* the run over 30 files, 5 of them without diff, with max_files = 25
C10_Witness ==
    /\ mainPc = "reviewing"
    /\ Len(prFiles) = 30
    /\ NumWithDiff(prFiles) = 25
    /\ ~HasDiff(prFiles[1])
    /\ maxFiles = 25
    /\ Len(reviewableFiles) = 25

----------------------------------------------------------------------------
(* Claims about the review modes *)

InlineRun == settings.reviewMode = "inline"
SummaryRun == settings.reviewMode \notin {"", "inline"}
RunEnded == mainPc \in {"done", "threw", "skipped", "notPR"}

\* the positions in sent of the requests made for file i of reviewableFiles
SentIdx(i) == {k \in 1 .. Len(sent) : sent[k].file = i}

\* the diff contents sent for file i, in the order they were sent
SentOf(i) == [k \in 1 .. Cardinality(SentIdx(i)) |-> sent[SetMin(SentIdx(i)) + k - 1].diff.v]

\* what trimming leaves of a patch under a cap of maxChars characters
TrimmedText(p, maxChars) ==
    IF Len(p) <= maxChars THEN p ELSE SubSeq(p, 1, maxChars) \o "\n...[truncated]\n"

\* C11: in inline mode every generation request carries one chunk of the
\* trimmed diff of its file: the contents sent for a file are, in order,
\* consecutive pieces of the trimmed diff from its start, each of at most
\* chunk_size_chars characters and together at most max_diff_chars_per_file
\* + 16; and no request is on the network before its chunk was cut.
C11_TrimThenChunkThenCall ==
    InlineRun =>
        /\ \A i \in 1 .. Len(reviewableFiles) :
              LET parts == SentOf(i)
                  all == Join(parts, "")
                  trimmed == TrimmedText(reviewableFiles[i].patch.v, settings.maxDiffCharsPerFile)
              IN  /\ \A k \in 1 .. Len(parts) :
                        /\ Len(parts[k]) <= settings.chunkSizeChars
                        /\ Len(parts[k]) > 0
                        /\ k < Len(parts) => Len(parts[k]) = settings.chunkSizeChars
                  /\ Len(all) <= settings.maxDiffCharsPerFile + 16
                  /\ Len(all) <= Len(trimmed)
                  /\ all = SubSeq(trimmed, 1, Len(all))
                  /\ SentIdx(i) = {} \/ SentIdx(i) = SetMin(SentIdx(i)) .. SetMax(SentIdx(i))
        /\ pc \in {"fetching", "sleeping"} =>
              /\ sent # <<>>
              /\ sent[Len(sent)].file = fileIdx
              /\ sent[Len(sent)].diff = chunks[chunkIdx]
              /\ Cardinality(SentIdx(fileIdx)) = chunkIdx

\* an inline run over a diff longer than the cap, sent whole in two chunks
C11_Witness ==
    /\ InlineRun
    /\ mainPc = "done"
    /\ \E i \in 1 .. Len(reviewableFiles) :
          /\ Len(reviewableFiles[i].patch.v) > settings.maxDiffCharsPerFile
          /\ Cardinality(SentIdx(i)) = 2
          /\ Len(Join(SentOf(i), "")) = settings.maxDiffCharsPerFile + 16

\* C12: in summary mode the combined diff text placed in the prompt (the
\* per-file sections, their separators and the truncation marker included)
\* is never longer than max_chars.
C12_DiffTextWithinMaxChars ==
    (SummaryRun /\ sent # <<>>) => Len(sent[1].diff.v) <= settings.maxChars

\* the marker line, the fixed report header and the text, as the comment body
ExpectedBody(text) ==
    "<!-- " \o settings.commentMarker \o " -->" \o "\n"
        \o "## [robot] AI PR Review\n- Model: '" \o settings.model \o "'\n- Files reviewed: "
        \o ToString(Len(reviewableFiles)) \o "\n" \o text

\* the comments whose body differs from what it was before the run, or that are new
Changed(before) ==
    {i \in 1 .. Len(comments) : i > Len(before) \/ comments[i] # before[i]}

\* the comments of the pull request when the run started
CommentsBefore == (CHOOSE sc \in Scenarios : sc.files = prFiles /\ sc.inputs = inputs).comments

\* C13: a summary-mode run with a reviewable file makes exactly one callLLM
\* call, whatever its retries, and on a non-empty result exactly one publish
\* action, a comment create or a comment update, whose body is the marker
\* line, the fixed header and the returned text unchanged.
C13_OneCallOnePublish ==
    (SummaryRun /\ mainPc \in {"reviewing", "commenting", "done", "threw"} /\ reviewableFiles # <<>>) =>
        /\ Len(sent) = 1
        /\ Len(writes) <= 1
        /\ Len(writes) = 1 => jobs[1].pc = "done"
        /\ posts = <<>> /\ reviews = <<>>
        /\ jobs[1].pc \in {"listing", "writing", "done", "failed"} =>
              /\ content.t = "string" /\ content.v # ""
              /\ jobs[1].body = ExpectedBody(content.v)
              /\ jobs[1].runs = 1
        /\ mainPc = "done" =>
              /\ jobs[1].pc = "done"
              /\ Len(writes) = 1
              /\ writes[1].job = 1
              /\ writes[1].op \in {"create", "update"}
              /\ Cardinality(Changed(CommentsBefore)) = 1
              /\ \E i \in Changed(CommentsBefore) :
                    /\ comments[i].id = writes[1].id
                    /\ comments[i].body = ExpectedBody(content.v)
                    /\ (writes[1].op = "create") = (i > Len(CommentsBefore))
        /\ (content # Undefined /\ ~(content.t = "string" /\ content.v # "")) =>
              /\ jobs[1].pc = "idle"
              /\ writes = <<>>

\* a summary run whose single call was retried and whose text updated the comment of
\* an earlier run
C13_Witness ==
    /\ SummaryRun
    /\ mainPc = "done"
    /\ Len(sent) = 1
    /\ Len(writes) = 1
    /\ writes[1].op = "update"
    /\ content = JStr(ReviewKept)
    /\ comments[2].body = ExpectedBody(ReviewKept)

----------------------------------------------------------------------------
(* Claims about the sticky comment *)

\* the positions of the comments that hold the marker of job j
MarkerComments(j) ==
    {i \in 1 .. Len(comments) : includes(comments[i].body, "<!-- " \o JobMarkers[j] \o " -->")}

\* the positions in writes of the writes job j made
WritesOf(j) == {k \in 1 .. Len(writes) : writes[k].job = j}

\* C14: after any number of runs made one after another with the same marker,
\* whatever comments were there before, at most one comment holds the marker:
\* the first run creates it and every later run updates that same comment.
C14_StickyCommentIdempotent ==
    \A j \in JobIds :
        /\ Cardinality(MarkerComments(j)) <= 1
        /\ \A k \in WritesOf(j) :
              IF k = SetMin(WritesOf(j)) THEN writes[k].op = "create"
              ELSE /\ writes[k].op = "update"
                   /\ writes[k].id = writes[SetMin(WritesOf(j))].id

OtherJob(j) == IF j = 1 THEN 2 ELSE 1
JobMarkerLine(j) == "<!-- " \o JobMarkers[j] \o " -->"

\* the comments that were on the pull request before the first run
HistoryLen == Len(comments) - Cardinality({k \in 1 .. Len(writes) : writes[k].op = "create"})

\* C15: two summary jobs with different markers never overwrite each other's
\* comment, under every interleaving of their list, create and update steps:
\* a job only updates a comment whose body holds its own marker (and not the
\* other's), and a job that has finished a run has its own comment, carrying
\* the body of that run; the comments of other authors stay as they were.
C15_JobsKeepTheirOwnComments ==
    /\ \A k \in 1 .. Len(writes) :
          writes[k].op = "update" =>
              /\ includes(writes[k].before, JobMarkerLine(writes[k].job))
              /\ ~includes(writes[k].before, JobMarkerLine(OtherJob(writes[k].job)))
    /\ \A j \in JobIds :
          jobs[j].pc = "done" =>
              \E i \in 1 .. Len(comments) :
                  /\ comments[i].id = jobs[j].target
                  /\ comments[i].body = jobs[j].body
                  /\ includes(comments[i].body, JobMarkerLine(j))
                  /\ ~includes(comments[i].body, JobMarkerLine(OtherJob(j)))
    /\ \A i \in 1 .. HistoryLen : comments[i] = HumanComment(i)

\* the two jobs ran twice on a pull request with one earlier comment: each created
\* its comment, and each updated its own comment in its second run
C15_Witness ==
    /\ \A j \in JobIds : jobs[j].pc = "done" /\ jobs[j].runs = 2 /\ jobs[j].op = "update"
    /\ Len(writes) = 4
    /\ writes[1].op = "create" /\ writes[2].op = "create"
    /\ writes[1].job # writes[2].job
    /\ writes[3].job # writes[4].job
    /\ jobs[1].target # jobs[2].target
    /\ Len(comments) = 3

----------------------------------------------------------------------------
(* Claims about failures *)

\* the entries of the log that tell how the review of a file ended
OutcomeTags == {"failed to review", "failed to post", "posted", "skipped"}
OutcomeIdx == {k \in 1 .. Len(runLog) : runLog[k].tag \in OutcomeTags}

\* the n-th smallest element of a set of numbers
Nth(S, n) == CHOOSE x \in S : Cardinality({y \in S : y <= x}) = n

\* how the review of the i-th reviewable file ended
Outcome(i) == runLog[Nth(OutcomeIdx, i)]

\* the calls made for file i that returned
AnswersOf(i) == {k \in 1 .. Len(answers) : answers[k].file = i}

RunFailed == failed # <<>>

\* C16: in inline mode a failure on one file (its generation call failing
\* after the retries, or its review being rejected by the platform) is caught
\* and logged as a warning and touches that file only: the files are taken one
\* by one in listing order, every one of them is processed whatever happened
\* to the files before, and the run does not fail because of it.
C16_InlineFailureIsPerFile ==
    (InlineRun /\ reviewableFiles # <<>>) =>
        /\ mainPc \in {"reviewing", "posting", "done"}
        /\ ~RunFailed
        /\ \A k \in 1 .. Len(sent) :
              /\ sent[k].file \in 1 .. Len(reviewableFiles)
              /\ sent[k].filename = reviewableFiles[sent[k].file].filename
              /\ k > 1 => sent[k].file \in {sent[k - 1].file, sent[k - 1].file + 1}
        /\ sent # <<>> /\ sent[1].file = 1
        /\ Cardinality(OutcomeIdx) = (IF mainPc = "done" THEN Len(reviewableFiles) ELSE fileIdx - 1)
        /\ \A i \in 1 .. Cardinality(OutcomeIdx) :
              /\ Outcome(i).file = reviewableFiles[i].filename
              /\ SentIdx(i) # {}
              /\ (Outcome(i).tag = "failed to review") =
                    (Cardinality(AnswersOf(i)) < Cardinality(SentIdx(i)))
              /\ Outcome(i).tag \in {"failed to review", "failed to post"} =>
                    Outcome(i).level = "warning"
              /\ (Outcome(i).tag = "failed to post") =
                    /\ \E p \in 1 .. Len(posts) : posts[p].comments[1].path = reviewableFiles[i].filename
                    /\ ~\E r \in 1 .. Len(reviews) : reviews[r].comments[1].path = reviewableFiles[i].filename
              /\ (Outcome(i).tag = "posted") =
                    \E r \in 1 .. Len(reviews) : reviews[r].comments[1].path = reviewableFiles[i].filename
        /\ mainPc = "done" => \A i \in 1 .. Len(reviewableFiles) : SentIdx(i) # {}

\* an inline run over two files: the generation call of the first failed, the review
\* of the second was posted
C16_Witness ==
    /\ InlineRun
    /\ mainPc = "done"
    /\ Len(reviewableFiles) = 2
    /\ Outcome(1).tag = "failed to review"
    /\ Outcome(2).tag = "posted"
    /\ Len(reviews) = 1
    /\ ~RunFailed

\* (a) required configuration is missing: the token or a required input
ConfigMissing ==
    \/ ~inputs.token
    \/ inputs.base_url = "" \/ inputs.api_key = "" \/ inputs.model = ""

\* the summary text obtained is a non-empty text
HasContent == content.t = "string" /\ content.v # ""

\* (b) the run has no reviewable output: nothing to review, or no text obtained
NoReviewableOutput == reviewableFiles = <<>> \/ ~HasContent

\* a severity keyword is in the text, whatever the case of its letters
SeverityKeywords ==
    {"kritik", "critical", "security", "rce", "sql injection", "auth bypass", "vulnerability"}
HasKeyword(text) == \E k \in SeverityKeywords : includes(toLowerCase(text), k)

\* (c) the policy check fires: the summary was published, the flag is set, a keyword is there
PolicyFired ==
    /\ SummaryRun
    /\ jobs[1].pc = "done"
    /\ settings.failOnIssues
    /\ HasContent /\ HasKeyword(content.v)

\* the listing of the changed files was asked for and did not complete
ListingRejected ==
    /\ ~ConfigMissing
    /\ inputs.pull_request
    /\ ~\E k \in 1 .. Len(runLog) : runLog[k].tag = "found files"

\* the summary generation call failed, or returned no text
SummaryGenerationFailed == SummaryRun /\ sent # <<>> /\ ~HasContent

\* a request about the summary comment (list, create, update) was rejected
CommentRejected == jobs[1].pc = "failed"

\* C17 as stated: a run that ended failed had (a) configuration missing, (b) no
\* reviewable output, or (c) the policy check firing; every other run succeeds.
C17_FailsOnlyConfigNoOutputPolicy ==
    (RunEnded /\ RunFailed) => (ConfigMissing \/ NoReviewableOutput \/ PolicyFired)

\* C17, amended: a run ends failed exactly when (a) the token or a required
\* input is missing, (b) in summary mode the generation call fails or returns
\* no text, (c) the policy check fires, or (d) a platform request outside the
\* per-file handling of inline mode is rejected: the listing of the changed
\* files, or the listing, creation or update of the summary comment. Every
\* other run ends successfully: no reviewable file, not a pull request, and
\* inline runs whatever happened to their files.
C17_FailsExactlyWhen ==
    RunEnded =>
        (RunFailed <=> (\/ ConfigMissing
                        \/ ListingRejected
                        \/ SummaryGenerationFailed
                        \/ CommentRejected
                        \/ PolicyFired))

\* a summary run that got its text, with nothing for the policy check to flag, and
\* failed because the platform rejected the write of the comment
C17_Witness ==
    /\ RunEnded
    /\ RunFailed
    /\ SummaryRun
    /\ content = JStr(ReviewKept)
    /\ jobs[1].pc = "failed"
    /\ jobs[1].op = "create"
    /\ ~ConfigMissing
    /\ ~PolicyFired

\* the summary generation call returned, with no usable text
EmptyGeneration == SummaryRun /\ content # Undefined /\ ~HasContent

\* C18: in summary mode, when the generation call succeeds but yields no
\* usable text, the run fails and no comment is created or updated; the
\* emptiness check precedes any publish action: createOrUpdateComment is only
\* ever entered with a non-empty text.
C18_EmptySummaryFailsUnpublished ==
    /\ EmptyGeneration =>
          /\ mainPc = "threw"
          /\ failed = <<"Model returned empty response">>
          /\ jobs[1].pc = "idle"
          /\ writes = <<>>
          /\ comments = CommentsBefore
    /\ (SummaryRun /\ jobs[1].pc # "idle") => HasContent

\* the endpoint answered 200 with an empty message content; the comment of an earlier
\* run is as it was
C18_Witness ==
    /\ EmptyGeneration
    /\ content = JStr("")
    /\ RunFailed
    /\ Len(comments) = 2
    /\ includes(comments[2].body, "<!-- AI_PR_REVIEW_ACTION -->")
    /\ comments = CommentsBefore

\* the run was marked as flagged by the policy check
PolicyFlaggedRun ==
    \E k \in 1 .. Len(failed) :
        failed[k] = "Critical issues detected by AI review (fail_on_issues=true)."

\* the fail-on-policy-match flag of the run is set
FlagSet == toLowerCase(inputs.fail_on_issues) = "true"

\* C19: the policy check runs only in summary mode, only with the flag set and
\* only after the summary comment was published: the run is then marked
\* flagged (failed) iff the lowercased summary holds one of the severity
\* keywords, and the published comment body stays exactly as it was published;
\* with the flag off, or in inline mode, the flagged outcome is never signalled.
C19_PolicyCheckAfterPublish ==
    /\ PolicyFlaggedRun =>
          /\ SummaryRun
          /\ FlagSet
          /\ mainPc = "done"
          /\ Len(writes) = 1
          /\ HasContent /\ HasKeyword(content.v)
          /\ failed = <<"Critical issues detected by AI review (fail_on_issues=true).">>
    /\ (SummaryRun /\ mainPc = "done") =>
          /\ PolicyFlaggedRun = (FlagSet /\ HasKeyword(content.v))
          /\ \E i \in 1 .. Len(comments) :
                /\ comments[i].id = writes[1].id
                /\ comments[i].body = ExpectedBody(content.v)
          /\ Cardinality(Changed(CommentsBefore)) = 1
    /\ (InlineRun \/ ~FlagSet) => ~PolicyFlaggedRun

\* a summary whose text starts with "Critical" was published, then flagged
C19_Witness ==
    /\ SummaryRun
    /\ mainPc = "done"
    /\ PolicyFlaggedRun
    /\ content = JStr(ReviewCritical)
    /\ comments[Len(comments)].body = ExpectedBody(ReviewCritical)

----------------------------------------------------------------------------
(* Claims about reviewFile *)

\* what callLLM returned for the chunks of file i, in chunk order
ResponsesOf(i) ==
    [k \in 1 .. Cardinality(AnswersOf(i)) |-> answers[SetMin(AnswersOf(i)) + k - 1].response]

\* the positions in rs of the responses that are non-empty and not judged low-value
KeptIdx(rs) ==
    {k \in 1 .. Len(rs) : rs[k].t = "string" /\ rs[k].v # "" /\ ~isEmptyReview(rs[k])}

\* the kept responses of file i, in chunk order
KeptOf(i) ==
    LET rs == ResponsesOf(i)
        idx == KeptIdx(rs)
    IN  [m \in 1 .. Cardinality(idx) |-> rs[Nth(idx, m)].v]

\* the kept responses under their labels '**Part 1:**' .. '**Part k:**'
Labelled(kept) ==
    Join([m \in 1 .. Len(kept) |-> "**Part " \o ToString(m) \o ":**\n" \o kept[m]], "\n\n")

\* what reviewFile is to return for these kept responses (k >= 1)
ExpectedReview(kept) == IF Len(kept) = 1 THEN kept[1] ELSE Labelled(kept)

\* the createReview requests made for file i
PostsOf(i) == {p \in 1 .. Len(posts) : posts[p].comments[1].path = reviewableFiles[i].filename}

\* every chunk of file i was answered and the loop of reviewFile is over
Reviewed(i) ==
    /\ i <= Cardinality(OutcomeIdx) \/ (i = fileIdx /\ mainPc = "posting")
    /\ Cardinality(AnswersOf(i)) = Cardinality(SentIdx(i))

\* C20: reviewFile keeps a chunk response iff it is non-empty and isEmptyReview
\* does not judge it low-value, in chunk order; with none kept the result is
\* absent and nothing is published for the file; with one kept the result is
\* that response bare; with k > 1 kept it is the responses under the labels
\* '**Part 1:**' .. '**Part k:**'.
C20_ReviewFileAggregation ==
    InlineRun =>
        /\ mainPc = "reviewing" =>
              LET kept == KeptOf(fileIdx)
              IN  responses = [m \in 1 .. Len(kept) |-> JStr(kept[m])]
        /\ \A i \in 1 .. Len(reviewableFiles) :
              /\ Cardinality(PostsOf(i)) <= 1
              /\ PostsOf(i) # {} => Reviewed(i)
              /\ Reviewed(i) =>
                    LET kept == KeptOf(i)
                    IN  IF kept = <<>>
                        THEN /\ PostsOf(i) = {}
                             /\ Outcome(i).tag = "skipped"
                        ELSE \E p \in PostsOf(i) :
                                posts[p].comments[1].body =
                                    "[robot] **AI Review** (" \o settings.model \o ")\n\n"
                                        \o ExpectedReview(kept)

\* a diff reviewed in three chunks: the second answer was low-value, the first and
\* the third were published as parts 1 and 2
C20_Witness ==
    /\ InlineRun
    /\ mainPc = "done"
    /\ Len(reviewableFiles) = 1
    /\ ResponsesOf(1) = <<JStr(ReviewKept), JStr(ReviewPhraseShort), JStr(ReviewPhraseLong)>>
    /\ Len(reviews) = 1
    /\ reviews[1].comments[1].body = "[robot] **AI Review** (m1)\n\n**Part 1:**\n" \o ReviewKept
                            \o "\n\n**Part 2:**\n" \o ReviewPhraseLong

----------------------------------------------------------------------------
(* Claims about the headings of a multi-chunk review *)

\* the kept responses of rs, each under the label of the chunk that produced it
LabelledByChunk(rs) ==
    LET idx == KeptIdx(rs)
    IN  Join([m \in 1 .. Cardinality(idx) |->
                "**Part " \o ToString(Nth(idx, m)) \o ":**\n" \o rs[Nth(idx, m)].v], "\n\n")

\* C21: when the diff of a file is split into n > 1 chunks, the review
\* published for it holds the kept responses under headings, and the heading
\* 'Part i' of a response is the position i of the chunk that produced it (the
\* i of 'part i/n' in the prompt), whichever responses survive the filtering
\* (stated for the reviews that carry headings: two kept responses or more).
C21_PartHeadingIsChunkPosition ==
    InlineRun =>
        \A i \in 1 .. Len(reviewableFiles) :
            (Reviewed(i) /\ Cardinality(KeptIdx(ResponsesOf(i))) > 1) =>
                \A p \in PostsOf(i) :
                    posts[p].comments[1].body =
                        "[robot] **AI Review** (" \o settings.model \o ")\n\n"
                            \o LabelledByChunk(ResponsesOf(i))

----------------------------------------------------------------------------
(* Claims about the review submissions of inline mode *)

\* the reviewable files whose review ended with a text to publish
YieldedText == {i \in 1 .. Len(reviewableFiles) : Reviewed(i) /\ KeptOf(i) # <<>>}

\* C22 as stated: an inline run makes one review submission for the whole run,
\* with one entry per file that yielded a review text.
C22_OneSubmissionPerRun ==
    (InlineRun /\ mainPc = "done") =>
        /\ Len(posts) = 1
        /\ Len(posts[1].comments) = Cardinality(YieldedText)

\* C22, amended: an inline run makes one review submission per file that
\* yielded a review text, in listing order, each a COMMENT review with exactly
\* one {path, position, body} entry for that file; a file that yielded no text
\* gets none, and a run in which no file yielded text submits nothing.
C22_OneSubmissionPerFile ==
    InlineRun =>
        /\ \A p \in 1 .. Len(posts) :
              /\ posts[p].event = "COMMENT"
              /\ Len(posts[p].comments) = 1
              /\ DOMAIN posts[p].comments[1] = {"path", "position", "body"}
        /\ Len(posts) = Cardinality(YieldedText)
        /\ \A p \in 1 .. Len(posts) :
              posts[p].comments[1].path = reviewableFiles[Nth(YieldedText, p)].filename
        /\ \A r \in 1 .. Len(reviews) : \E p \in 1 .. Len(posts) : reviews[r] = posts[p]

\* a finished run over two files: each yielded a text and got a submission of
\* its own, which the platform accepted
C22_Witness ==
    /\ InlineRun
    /\ mainPc = "done"
    /\ Len(reviewableFiles) = 2
    /\ Len(posts) = 2
    /\ Len(reviews) = 2
    /\ posts[1].comments[1].path = "b.js"
    /\ posts[2].comments[1].path = "a.js"

----------------------------------------------------------------------------
(* Claims about the order of the generation requests *)

\* the HTTP requests of the current call that were issued and have no outcome yet
InFlight ==
    Cardinality({k \in 1 .. Len(log) : log[k].e = "req"})
        - Cardinality({k \in 1 .. Len(log) : log[k].e \in {"resp", "abort", "neterr"}})

\* the number of chunks the diff of reviewable file i is cut into
NumChunks(i) ==
    LET n == Len(TrimmedText(reviewableFiles[i].patch.v, settings.maxDiffCharsPerFile))
    IN  IF n <= settings.chunkSizeChars THEN 1
        ELSE (n + settings.chunkSizeChars - 1) \div settings.chunkSizeChars

\* the requests of the run so far follow the listing order of the files and, within
\* a file, the order of its chunks, with no chunk asked for twice
SentInOrder ==
    /\ \A k \in 1 .. Len(sent) : \A l \in (k + 1) .. Len(sent) : sent[k].file <= sent[l].file
    /\ \A i \in 1 .. Len(reviewableFiles) :
          \A k \in SentIdx(i) :
              LET m == Cardinality({j \in SentIdx(i) : j <= k})
              IN  /\ sent[k].filename = reviewableFiles[i].filename
                  /\ m <= NumChunks(i)
                  /\ sent[k].chunkInfo =
                        IF NumChunks(i) = 1 THEN JNull
                        ELSE JStr("part " \o ToString(m) \o "/" \o ToString(NumChunks(i)))

\* a step that issues the request for the next chunk or file
NextRequestIssued == sent' # sent

\* C23: the file and chunk requests of a run are issued strictly one after the
\* other: at most one HTTP request to the generation endpoint is in flight, the
\* request for the next chunk (or file) is issued only when the call for the
\* one before has returned or thrown, so after all its attempts and backoff
\* sleeps, and the files are taken in listing order, their chunks in order.
C23_RequestsAreSequential ==
    /\ [](InlineRun => (InFlight \in {0, 1} /\ (InFlight = 1 <=> pc = "fetching")
                            /\ SentInOrder))
    /\ [][(InlineRun' /\ NextRequestIssued) =>
            /\ pc \in {"idle", "returned", "thrown"}
            /\ InFlight = 0
            /\ timers = {}
            /\ Len(sent') = Len(sent) + 1
            /\ pc' = "fetching"
            /\ attempt' = 1]_vars

\* the third request of a run (the first of the second file, after the two
\* chunks of the first) is in a backoff sleep before its second attempt
C23_Witness ==
    /\ InlineRun
    /\ Len(sent) = 3
    /\ sent[1].chunkInfo = JStr("part 1/2")
    /\ sent[2].chunkInfo = JStr("part 2/2")
    /\ sent[3].file = 2
    /\ pc = "sleeping"
    /\ InFlight = 0

----------------------------------------------------------------------------
(* Claims about the deadline timers of fetchJson *)

\* the positions in the log of the deadline expiries
AbortIdx == {k \in 1 .. Len(log) : log[k].e = "abort"}

\* C24: each attempt of fetchJson has a deadline timer of its own, started
\* with the attempt and cancelled when its response or failure is observed:
\* while an attempt awaits fetch the one pending timer is its own, no timer is
\* pending during a backoff sleep or once fetchJson has returned or thrown, and
\* a deadline only ever ends the attempt whose request it was started with.
C24_DeadlineTimerPerAttempt ==
    /\ Cardinality(timers) <= 1
    /\ pc = "fetching" => timers = {attempt}
    /\ pc \in {"idle", "sleeping", "returned", "thrown"} => timers = {}
    /\ \A k \in AbortIdx :
          /\ k > 1
          /\ log[k - 1].e = "req"
          /\ log[k - 1].attempt = log[k].attempt

\* the first attempt ran into its deadline, the second failed on the network and
\* the third returned: no timer is pending
C24_Witness ==
    /\ pc = "returned"
    /\ attempt = 3
    /\ timers = {}
    /\ \E k \in AbortIdx : log[k].attempt = 1
    /\ \E k \in 1 .. Len(log) : log[k].e = "neterr" /\ log[k].attempt = 2

----------------------------------------------------------------------------
(* Claims about what callLLM returns *)

\* the responses observed by the current call
RespIdx == {k \in 1 .. Len(log) : log[k].e = "resp"}

\* the body of the response the call returned on
ReturnedText == log[SetMax(RespIdx)].text

\* the review text a body carries: the message content of the first choice,
\* else its legacy text field, else none
ContentOfBody(text) ==
    CASE text \in {TextContent, TextBoth} -> "Possible bug"
      [] text \in {TextLegacy, TextNullContent} -> "Legacy text"
      [] OTHER -> ""

\* C25: callLLM never returns null or undefined: it returns the message
\* content of the first choice when present, else the legacy text of the first
\* choice when present, else the empty string. A success response whose body
\* is not valid JSON makes fetchJson return an absent value at once, with no
\* error and no retry, and callLLM return the empty string.
C25_CallLLMReturnsText ==
    /\ \A k \in RespIdx :
          (log[k].status >= 200 /\ log[k].status <= 299) =>
              /\ k = Len(log) - 1
              /\ log[Len(log)].e = "return"
              /\ log[Len(log)].attempt = log[k].attempt
              /\ pc = "returned"
    /\ (caller = "callLLM" /\ pc = "returned") =>
          /\ llmResult.t = "string"
          /\ llmResult.v = ContentOfBody(ReturnedText)
          /\ ReturnedText \in {TextNotJson, TextEmpty} => result.value = JNull

\* the second attempt got a success response whose body is not JSON
C25_Witness ==
    /\ caller = "callLLM"
    /\ pc = "returned"
    /\ attempt = 2
    /\ ReturnedText = TextNotJson
    /\ result = [kind |-> "return", value |-> JNull]
    /\ llmResult = JStr("")

----------------------------------------------------------------------------
(* Claims about the utility functions, over the calls of the unit tests *)

Called(fn) == test.fn = fn

\* the message the preference order gives: the nested error.message, else the
\* error field when it is a string, else the raw text, else 'HTTP <status>'
PreferredMessage(json, text, status) ==
    LET err == IF json.t = "object" /\ "error" \in DOMAIN json.v
               THEN json.v["error"] ELSE [t |-> "undefined"]
        nested == IF err.t = "object" /\ "message" \in DOMAIN err.v
                  THEN err.v["message"] ELSE [t |-> "undefined"]
    IN  IF nested.t = "string" /\ nested.v # "" THEN nested.v
        ELSE IF err.t = "string" /\ err.v # "" THEN err.v
        ELSE IF text # "" THEN text
        ELSE "HTTP " \o ToString(status)

\* C26: the message of the error built for a non-success response is the
\* nested error.message if present, else the error field if it is a string,
\* else the raw response text, else 'HTTP <status>' (so the raw text when the
\* error field is neither a string nor an object with a message); the error
\* carries the status and the raw body.
C26_ErrorMessagePreference ==
    Called("createHttpError") =>
        /\ test.ret.message = PreferredMessage(test.json, test.text, test.status)
        /\ test.ret.status = test.status
        /\ test.ret.body = test.text

\* C27: chunkString(text, size), size >= 1: an absent or empty text, or one of
\* at most size characters, gives the one-element sequence [text] (the absent
\* value itself when absent); a longer text gives ceil(length / size) chunks,
\* each of exactly size characters but the last, which has 1 .. size, and the
\* chunks concatenated in order are the text.
C27_ChunkStringPartitions ==
    Called("chunkString") =>
        LET str == test.str
            size == test.size
            ret == test.ret
        IN  IF str.t # "string" \/ Len(str.v) <= size
            THEN ret = <<str>>
            ELSE /\ (Len(ret) - 1) * size < Len(str.v)
                 /\ Len(str.v) <= Len(ret) * size
                 /\ \A i \in 1 .. Len(ret) : ret[i].t = "string"
                 /\ \A i \in 1 .. (Len(ret) - 1) : Len(ret[i].v) = size
                 /\ Len(ret[Len(ret)].v) \in 1 .. size
                 /\ Join([i \in 1 .. Len(ret) |-> ret[i].v], "") = str.v

\* five characters cut by two: two full chunks and the remainder
C27_Witness ==
    /\ Called("chunkString")
    /\ test.str = JStr("ababa")
    /\ test.size = 2
    /\ test.ret = <<JStr("ab"), JStr("ab"), JStr("a")>>

\* C28: trimDiff(text, maxChars) is the empty string for an absent text, the
\* text itself when it has at most maxChars characters, and otherwise its first
\* maxChars characters followed by the 16-character truncation marker, so at
\* most maxChars + 16 characters; trimming again a text that already fits
\* changes nothing.
C28_TrimDiffCutsAndMarks ==
    Called("trimDiff") =>
        LET patch == test.patch
            maxChars == test.maxChars
            ret == test.ret
        IN  /\ ret.t = "string"
            /\ Len(ret.v) <= maxChars + 16
            /\ Len("\n...[truncated]\n") = 16
            /\ IF patch.t # "string" THEN ret.v = ""
               ELSE IF Len(patch.v) <= maxChars
               THEN /\ ret.v = patch.v
                    /\ trimDiff(ret, maxChars) = ret
               ELSE /\ Len(ret.v) = maxChars + 16
                    /\ SubSeq(ret.v, 1, maxChars) = SubSeq(patch.v, 1, maxChars)
                    /\ SubSeq(ret.v, maxChars + 1, maxChars + 16) = "\n...[truncated]\n"

\* five characters under a cap of three: the first three and the marker
C28_Witness ==
    /\ Called("trimDiff")
    /\ test.patch = JStr("ababa")
    /\ test.maxChars = 3
    /\ test.ret = JStr("aba\n...[truncated]\n")

\* the length of a text without the white space at its ends
TrimmedLength(s) ==
    LET white == {" ", "\n", "\t", "\r", "\f"}
        inner == {i \in 1 .. Len(s) : SubSeq(s, i, i) \notin white}
    IN  IF inner = {} THEN 0 ELSE SetMax(inner) - SetMin(inner) + 1

\* the lowercased text holds a phrase of the fixed list
HasEmptyPhrase(s) ==
    \E phrase \in {"no issues", "looks good", "lgtm", "no problems", "no concerns",
                   "sorun yok", "problem yok", "iyi görünüyor", "nothing to report",
                   "no suggestions"} :
        \E i \in 1 .. (Len(s) - Len(phrase) + 1) :
            toLowerCase(SubSeq(s, i, i + Len(phrase) - 1)) = phrase

\* C29: isEmptyReview(content) is true when content is absent or has fewer than
\* 20 characters once trimmed, false when it has 100 or more once trimmed (even
\* with a phrase of the list in it), and for 20 .. 99 trimmed characters true
\* exactly when the lowercased text holds a phrase of the list.
C29_IsEmptyReviewThresholds ==
    Called("isEmptyReview") =>
        LET c == test.content
        IN  test.ret =
                IF c.t # "string" \/ TrimmedLength(c.v) < 20 THEN TRUE
                ELSE IF TrimmedLength(c.v) >= 100 THEN FALSE
                ELSE HasEmptyPhrase(c.v)

\* 99 characters with 'looks good' in them, white space around: judged empty
C29_Witness ==
    /\ Called("isEmptyReview")
    /\ test.content.t = "string"
    /\ Len(test.content.v) > 100
    /\ TrimmedLength(test.content.v) = 99
    /\ HasEmptyPhrase(test.content.v)
    /\ test.ret = TRUE

\* the lines of a text, as split("\n") gives them
RECURSIVE SplitLines(_)
SplitLines(s) ==
    LET breaks == {i \in 1 .. Len(s) : SubSeq(s, i, i) = "\n"}
    IN  IF breaks = {} THEN <<s>>
        ELSE <<SubSeq(s, 1, SetMin(breaks) - 1)>>
                \o SplitLines(SubSeq(s, SetMin(breaks) + 1, Len(s)))

\* a line that adds or removes content: it starts with + or -, not with +++ or ---
IsChangeLine(l) ==
    /\ Len(l) >= 1
    /\ SubSeq(l, 1, 1) \in {"+", "-"}
    /\ ~(Len(l) >= 3 /\ SubSeq(l, 1, 3) \in {"+++", "---"})

\* C30: getFirstHunkPosition(patch) is the 1-based index, counted from the
\* first line of the patch, of the first line that starts with '+' or '-' and
\* not with '+++' or '---'; it is 1 when the patch is absent, empty or has no
\* such line; so it lies between 1 and the number of lines of the patch.
C30_FirstHunkPosition ==
    Called("getFirstHunkPosition") =>
        IF test.patch.t # "string" \/ test.patch.v = "" THEN test.ret = 1
        ELSE LET lines == SplitLines(test.patch.v)
                 hits == {i \in 1 .. Len(lines) : IsChangeLine(lines[i])}
             IN  /\ test.ret \in 1 .. Len(lines)
                 /\ test.ret = IF hits = {} THEN 1 ELSE SetMin(hits)

\* a file line, then the first added line: position 2
C30_Witness ==
    /\ Called("getFirstHunkPosition")
    /\ test.patch = JStr("---\n+")
    /\ test.ret = 2

\* a raw value that is a base-10 integer from end to end: an optional sign, then
\* digits only
IsInteger(raw) ==
    /\ raw.t = "string"
    /\ LET body == IF raw.v # <<>> /\ Head(raw.v) \in {"+", "-"} THEN Tail(raw.v) ELSE raw.v
       IN  body # <<>> /\ \A i \in 1 .. Len(body) : IsDigit(body[i])

\* the integer such a raw value denotes
IntegerOf(raw) ==
    IF Head(raw.v) = "-" THEN 0 - DigitsPrefix(Tail(raw.v), 0)
    ELSE IF Head(raw.v) = "+" THEN DigitsPrefix(Tail(raw.v), 0)
    ELSE DigitsPrefix(raw.v, 0)

C32_DefaultUnlessInteger ==
    Called("clampInt") =>
        IF IsInteger(test.raw)
        THEN test.ret = Max(test.min, Min(test.max, IntegerOf(test.raw)))
        ELSE test.ret = test.def

\* C33: in a fetchJson call with an observer every retry is announced exactly
\* once, before its sleep: each announcement directly follows the failure of a
\* request (a retryable response, a network failure or a timeout) that was not
\* the last attempt, carries the number of that attempt and its status (408 for
\* a timeout, 0 for a network failure), and is directly followed by the sleep of
\* the announced delay, or, for a timeout, announces delay 0 and is followed by
\* the next request without a sleep; every sleep is announced; no attempt is
\* announced twice; nothing is announced after a success, a terminal error or
\* the last attempt; and when a call that issued a request has ended, the
\* announcements number one less than the requests (none when no request was
\* issued). A call without observer announces nothing.
C33_EveryRetryAnnouncedOnce ==
    LET Announced == {i \in DOMAIN log : log[i].e = "notify"}
        withObserver == "onRetry" \in DOMAIN config
    IN  /\ ~withObserver => Announced = {}
        /\ \A i \in Announced :
            LET k == log[i].attempt
            IN  /\ i > 1 /\ i < Len(log)
                /\ log[i - 1].attempt = k
                /\ k < AskedMaxRetries
                /\ \A j \in Announced : log[j].attempt = k => j = i
                /\ \/ /\ log[i - 1].e = "resp"
                      /\ RetryableStatus(log[i - 1].status)
                      /\ log[i].status = log[i - 1].status
                      /\ log[i].delay > 0
                      /\ log[i + 1] = Ev("sleep", k, 0, log[i].delay)
                   \/ /\ log[i - 1].e = "neterr"
                      /\ log[i].status = 0
                      /\ log[i].delay > 0
                      /\ log[i + 1] = Ev("sleep", k, 0, log[i].delay)
                   \/ /\ log[i - 1].e = "abort"
                      /\ log[i].status = 408
                      /\ log[i].delay = 0
                      /\ log[i + 1] = Ev("req", k + 1, 0, 0)
        /\ withObserver =>
            /\ \A i \in DOMAIN log : log[i].e = "sleep" => (i - 1) \in Announced
            /\ \A i \in DOMAIN log :
                   (log[i].e = "req" /\ log[i].attempt > 1) =>
                       \E j \in Announced : j < i /\ log[j].attempt = log[i].attempt - 1
            /\ Ended => Cardinality(Announced) = (IF NumReq = 0 THEN 0 ELSE NumReq - 1)

\* three requests with an observer: a 503 announced with delay 1000 and slept, a
\* timeout announced with delay 0 and not slept, then a 404 that ends the call
C33_Witness ==
    /\ pc = "thrown"
    /\ "onRetry" \in DOMAIN config
    /\ Len(log) = 10
    /\ log[2].e = "resp" /\ log[2].status = 503
    /\ log[3] = Ev("notify", 1, 503, 1000)
    /\ log[4] = Ev("sleep", 1, 0, 1000)
    /\ log[6].e = "abort"
    /\ log[7] = Ev("notify", 2, 408, 0)
    /\ log[8] = Ev("req", 3, 0, 0)
    /\ log[9].e = "resp" /\ log[9].status = 404
    /\ Cardinality({i \in DOMAIN log : log[i].e = "notify"}) = 2

\* C34: every fetchJson call terminates. When every awaited request settles (a
\* response, a network failure or the deadline) and every sleep ends, a call
\* that was started eventually returns a decoded body or throws; and for
\* maxRetries >= 1 it never issues more than maxRetries requests nor sleeps more
\* than maxRetries - 1 times on the way.
C34_CallTerminates ==
    /\ (Started ~> Ended)
    /\ [](AskedMaxRetries >= 1 =>
            /\ NumReq <= AskedMaxRetries
            /\ Len(Sleeps) <= AskedMaxRetries - 1)

\* a call with maxRetries = 3 that used all three attempts and slept twice
C34_Witness ==
    /\ Ended
    /\ AskedMaxRetries = 3
    /\ NumReq = 3
    /\ Len(Sleeps) = 2

\* C35: for every maxRetries >= 1 a fetchJson call ends inside its attempt loop,
\* by a return or a throw on an attempt numbered at most maxRetries, and what it
\* throws is an error object, never undefined; the 'throw lastError' after the
\* loop is reached only when maxRetries < 1, and then without any request.
C35_TrailingThrowUnreachable ==
    (Started /\ Ended) =>
        LET last == log[Len(log)]
            afterLoop == last.e = "throw" /\ last.attempt > AskedMaxRetries
        IN  /\ AskedMaxRetries >= 1 =>
                /\ ~afterLoop
                /\ last.attempt \in 1 .. AskedMaxRetries
                /\ pc = "thrown" => /\ result.kind = "throw"
                                    /\ result.value # [t |-> "undefined"]
                                    /\ "message" \in DOMAIN result.value
            /\ afterLoop => AskedMaxRetries < 1 /\ NumReq = 0

\* a call with maxRetries = 2 whose second and last attempt timed out: the error
\* is thrown from the catch block while lastError holds the first failure
C35_Witness ==
    /\ pc = "thrown"
    /\ AskedMaxRetries = 2
    /\ NumReq = 2
    /\ log[Len(log) - 1].e = "abort"
    /\ log[Len(log)] = Ev("throw", 2, 408, 0)
    /\ lastError # Undefined
    /\ result.value.status = 408

\* the files of an inline run whose handling is over
Handled == 1 .. (IF mainPc = "done" THEN Len(reviewableFiles) ELSE fileIdx - 1)

C37_OneOutcomePerFile ==
    InlineRun =>
        LET n == Len(reviewableFiles)
            With(tags) == {i \in Handled : Outcome(i).tag \in tags}
        IN  /\ successCount + skipCount <= n
            /\ \A i \in 1 .. n : Cardinality(PostsOf(i)) <= 1
            /\ Len(posts) <= n
            /\ (mainPc = "done" /\ n > 0) =>
                  /\ Cardinality(OutcomeIdx) = n
                  /\ \A i \in 1 .. n : Outcome(i).file = reviewableFiles[i].filename
                  /\ successCount = Cardinality(With({"posted"}))
                  /\ skipCount = Cardinality(With({"skipped"}))
                  /\ successCount + skipCount
                        + Cardinality(With({"failed to review", "failed to post"})) = n
                  /\ \A i \in With({"posted", "failed to post"}) : Cardinality(PostsOf(i)) = 1
                  /\ \A i \in With({"skipped", "failed to review"}) : PostsOf(i) = {}
                  /\ Len(reviews) = successCount

\* a run over two files: the review of the first was rejected by the platform,
\* the second had nothing to report
C37_Witness ==
    /\ InlineRun
    /\ mainPc = "done"
    /\ Len(reviewableFiles) = 2
    /\ Outcome(1).tag = "failed to post"
    /\ Outcome(2).tag = "skipped"
    /\ successCount = 0
    /\ skipCount = 1
    /\ Len(posts) = 1

\* C38: in inline mode a file for which a generation call failed (a request of
\* the file got no answer) has no annotation published, even when earlier
\* chunks of it had produced reviews that were kept; the failed call is the last
\* request made for the file, so its remaining chunks are not requested; and the
\* failure is logged for the file.
C38_FailedChunkDropsFile ==
    InlineRun =>
        \A i \in Handled :
            Cardinality(AnswersOf(i)) < Cardinality(SentIdx(i)) =>
                /\ PostsOf(i) = {}
                /\ Cardinality(SentIdx(i)) = Cardinality(AnswersOf(i)) + 1
                /\ Outcome(i) = [level |-> "warning", tag |-> "failed to review",
                                 file |-> reviewableFiles[i].filename]

\* the first chunk of three produced a review that was kept, the call for the
\* second failed: the third was not requested and nothing was published
C38_Witness ==
    /\ InlineRun
    /\ mainPc = "done"
    /\ NumChunks(1) = 3
    /\ Cardinality(SentIdx(1)) = 2
    /\ Cardinality(AnswersOf(1)) = 1
    /\ answers[1].response = JStr(ReviewKept)
    /\ PostsOf(1) = {}
    /\ posts = <<>>

\* C39: in summary mode the combined diff holds the sections of the reviewable
\* files in listing order up to, and without, the first file whose section
\* would take the running total of section lengths over max_chars; no file
\* after that one is included, even one that would fit; and when a file was
\* left out the text ends with the marker '...[N more files truncated]', N
\* being the number of reviewable files whose diff is not included.
C39_AssemblyStopsAtFirstOverflow ==
    (SummaryRun /\ sent # <<>>) =>
        LET n == Len(reviewableFiles)
            Section(i) ==
                "--- a/" \o reviewableFiles[i].filename \o "\n+++ b/"
                    \o reviewableFiles[i].filename \o "\n"
                    \o TrimmedText(reviewableFiles[i].patch.v, settings.maxDiffCharsPerFile)
                    \o "\n"
            lens == [i \in 1 .. n |-> Len(Section(i))]
            RECURSIVE Total(_)
            Total(i) == IF i = 0 THEN 0 ELSE Total(i - 1) + lens[i]
            over == {i \in 1 .. n : Total(i) > settings.maxChars}
            included == IF over = {} THEN n ELSE SetMin(over) - 1
            marker == "...[" \o ToString(n - included) \o " more files truncated]\n"
            parts == [i \in 1 .. included |-> Section(i)]
                        \o (IF included < n THEN <<marker>> ELSE <<>>)
        IN  sent[1].diff = JStr(Join(parts, "\n"))

\* of three files the second does not fit and the third would: the text is the
\* first section and the marker for two files
C39_Witness ==
    /\ SummaryRun
    /\ mainPc = "done"
    /\ Len(reviewableFiles) = 3
    /\ Len(reviewableFiles[3].patch.v) < 100
    /\ Len(sent[1].diff.v) < 6000
    /\ includes(sent[1].diff.v, "--- a/a.js\n")
    /\ ~includes(sent[1].diff.v, "b.js")
    /\ includes(sent[1].diff.v, "\n...[2 more files truncated]\n")

====
